---- MODULE Spec2Model ----
(***************************************************************************)
(* Model of cyberwave_cli/discovery/scanner.py: the DiscoveredDevice       *)
(* record, the NetworkScanner result map guarded by a lock, the TCP sweep  *)
(* run on the calling thread, the ONVIF and UPnP prober threads, and       *)
(* scan(), which clears the map, starts the probers, sweeps, joins the     *)
(* probers with a bounded wait and returns list(map.values()).             *)
(*                                                                         *)
(* Python objects are modelled by reference: a device stored in the map is *)
(* the object <<g, key>> of the map generation g it was inserted into      *)
(* (generation = number of clear() calls so far), so a list returned by an *)
(* earlier scan keeps referring to the objects a still-running prober may  *)
(* mutate.  One step of a thread is one blocking call or one dictionary    *)
(* operation (each is atomic under the interpreter lock).                  *)
(*                                                                         *)
(* Specifications: Spec (one scan), SpecReuse (a scanner used twice),      *)
(* SpecMerge (_add_device called directly), SpecSweep and SpecSweepFair    *)
(* (the sweep with its worker pool), SpecLive (scan under fair scheduling  *)
(* and a network that never falls silent), SpecCalls (_check_port,         *)
(* DiscoveredDevice(...) and NetworkScanner(...) called on their own),     *)
(* SpecReplies (the two probers run on their own, given one datagram),     *)
(* SpecListen (the same under fair scheduling, the datagram arriving again *)
(* and again), SpecIter (scan_iter), SpecDetect (a scanner constructed and *)
(* used for sweeps while the network changes) and SpecEvidence (one scan   *)
(* on a network whose behaviour is fixed beforehand).                      *)
(***************************************************************************)
EXTENDS Integers, Sequences, FiniteSets, TLC

----------------------------------------------------------------------------
(* Bounds of the model *)

\* the sweep covers hosts subnet.1 .. subnet.MaxHost (254 in the code)
MaxHost == 1
\* the sweep covers the first NumPorts ports of SweptPorts (all 8 in the code)
NumPorts == 2
\* datagrams the network delivers to the probers, over all probers
MaxReplies == 2
\* scan() calls made on the one scanner object
MaxCalls == 1
\* scan() calls made on the one scanner object when its reuse is examined
MaxReuse == 2
\* with the worker pool modelled, the sweep covers hosts subnet.1 ..
\* subnet.SweepHosts and the first SweepPorts ports of SweptPorts
SweepHosts == 2
SweepPorts == 2
\* max_workers ranges over 1 .. MaxWorkers (50 by default in the code)
MaxWorkers == 2
\* a reply examined on its own has at most MaxWords words
MaxWords == 2
\* with the network's behaviour fixed beforehand, the ONVIF prober gets at
\* most MaxOnvifReplies replies and the UPnP prober at most MaxUpnpReplies
MaxOnvifReplies == 2
MaxUpnpReplies == 1

----------------------------------------------------------------------------
(* DeviceType, DiscoveredDevice *)

CAMERA == "camera"
NVR == "nvr"
UNKNOWN == "unknown"
DeviceType == {CAMERA, NVR, UNKNOWN}

\* a template that gives every scheme its own prefix
BuildUrlAnyScheme(protocol, ip, port) ==
    IF protocol = "rtsp" THEN "rtsp://" \o ip \o ":" \o ToString(port) \o "/stream"
    ELSE IF protocol \in {"http", "onvif"} THEN "http://" \o ip \o ":" \o ToString(port) \o "/"
    ELSE IF protocol = "https" THEN "https://" \o ip \o ":" \o ToString(port) \o "/"
    ELSE ip \o ":" \o ToString(port)

\* DiscoveredDevice._build_url
BuildUrl(protocol, ip, port) ==
    IF protocol = "rtsp" THEN "rtsp://" \o ip \o ":" \o ToString(port) \o "/stream"
    ELSE IF protocol \in {"http", "onvif"} THEN "http://" \o ip \o ":" \o ToString(port) \o "/"
    ELSE ip \o ":" \o ToString(port)

\* DiscoveredDevice(...) with __post_init__: an empty url is derived once
DiscoveredDevice(ip, port, device_type, protocol, name, manufacturer, model, mac, url) ==
    [ip |-> ip, port |-> port, device_type |-> device_type, protocol |-> protocol,
     name |-> name, manufacturer |-> manufacturer, model |-> model, mac |-> mac,
     url |-> IF url = "" THEN BuildUrl(protocol, ip, port) ELSE url]

\* Python's None where a device is expected (no device has port 0)
None == [ip |-> "", port |-> 0, device_type |-> UNKNOWN, protocol |-> "",
         name |-> "", manufacturer |-> "", model |-> "", mac |-> "", url |-> ""]

----------------------------------------------------------------------------
(* NetworkScanner: class attributes *)

CAMERA_PORTS ==
    (554 :> <<"rtsp", CAMERA>>) @@ (8554 :> <<"rtsp", CAMERA>>) @@
    (80 :> <<"http", UNKNOWN>>) @@ (8080 :> <<"http", UNKNOWN>>) @@
    (443 :> <<"https", UNKNOWN>>) @@ (37777 :> <<"http", NVR>>) @@
    (34567 :> <<"http", NVR>>) @@ (9000 :> <<"http", NVR>>)

\* self.subnet, here the value _detect_subnet falls back to
Subnet == "192.168.1"

HostIp(i) == Subnet \o "." \o ToString(i)

\* the keys the bounded sweep draws from: the one port the multicast probers
\* report under, then the others in the order of the table
SweptPorts == <<80, 554, 8554, 8080, 443, 37777, 34567, 9000>>

\* the targets list of _scan_ports, within the bounds
Targets == {<<HostIp(i), SweptPorts[j]>> : i \in 1..MaxHost, j \in 1..NumPorts}

\* a key that leaves out the port
KeyOfIp(device) == device.ip

\* key = f"{device.ip}:{device.port}" in _add_device
KeyOf(device) == device.ip \o ":" \o ToString(device.port)

----------------------------------------------------------------------------
(* Datagrams: a payload is the sequence of words of the reply; BadBytes    *)
(* stands for bytes that are not valid UTF-8.                              *)

BadBytes == "\\xff"

Payloads == { <<BadBytes, "NOISE">>, <<"Hikvision", "camera">>, <<"DAHUA", "axis">> }

\* source addresses a reply can come from: a swept host and a foreign one
ReplyIps == { HostIp(1), "10.0.0.7" }

\* data.decode(errors="ignore"): undecodable bytes are dropped
Decode(data) == SelectSeq(data, LAMBDA w : w # BadBytes)

\* str.lower() of one word
LowerWord(w) ==
    CASE w = "NOISE" -> "noise"
      [] w = "Hikvision" -> "hikvision"
      [] w = "DAHUA" -> "dahua"
      [] w = "Axis" -> "axis"
      [] w = "NVR" -> "nvr"
      [] OTHER -> w

\* str.lower()
Lower(text) == [i \in DOMAIN text |-> LowerWord(text[i])]

\* token in text
Contains(text, token) == \E i \in DOMAIN text : text[i] = token

\* an ONVIF reply recorded under the RTSP port
OnvifDeviceRtspPort(ip, data) ==
    LET response == Decode(data)
        device == DiscoveredDevice(ip, 554, CAMERA, "onvif", "", "", "", "", "")
    IN  IF Contains(Lower(response), "hikvision") THEN [device EXCEPT !.manufacturer = "Hikvision"]
        ELSE IF Contains(Lower(response), "dahua") THEN [device EXCEPT !.manufacturer = "Dahua"]
        ELSE IF Contains(Lower(response), "axis") THEN [device EXCEPT !.manufacturer = "Axis"]
        ELSE device

\* an ONVIF device constructed with the default protocol, its protocol
\* assigned afterwards like its manufacturer
OnvifDeviceLateProtocol(ip, data) ==
    LET response == Decode(data)
        device == [DiscoveredDevice(ip, 80, CAMERA, "", "", "", "", "", "")
                      EXCEPT !.protocol = "onvif"]
    IN  IF Contains(Lower(response), "hikvision") THEN [device EXCEPT !.manufacturer = "Hikvision"]
        ELSE IF Contains(Lower(response), "dahua") THEN [device EXCEPT !.manufacturer = "Dahua"]
        ELSE IF Contains(Lower(response), "axis") THEN [device EXCEPT !.manufacturer = "Axis"]
        ELSE device

\* an ONVIF reply recorded without looking for a vendor
OnvifDeviceUnnamed(ip, data) ==
    DiscoveredDevice(ip, 80, CAMERA, "onvif", "", "", "", "", "")

\* the vendor tokens tried in the reverse order
OnvifDeviceAxisFirst(ip, data) ==
    LET response == Decode(data)
        device == DiscoveredDevice(ip, 80, CAMERA, "onvif", "", "", "", "", "")
    IN  IF Contains(Lower(response), "axis") THEN [device EXCEPT !.manufacturer = "Axis"]
        ELSE IF Contains(Lower(response), "dahua") THEN [device EXCEPT !.manufacturer = "Dahua"]
        ELSE IF Contains(Lower(response), "hikvision") THEN [device EXCEPT !.manufacturer = "Hikvision"]
        ELSE device

\* _discover_onvif, lines 235-252: the device built from one reply
OnvifDevice(ip, data) ==
    LET response == Decode(data)
        device == DiscoveredDevice(ip, 80, CAMERA, "onvif", "", "", "", "", "")
    IN  IF Contains(Lower(response), "hikvision") THEN [device EXCEPT !.manufacturer = "Hikvision"]
        ELSE IF Contains(Lower(response), "dahua") THEN [device EXCEPT !.manufacturer = "Dahua"]
        ELSE IF Contains(Lower(response), "axis") THEN [device EXCEPT !.manufacturer = "Axis"]
        ELSE device

UpnpKeywords == {"camera", "nvr", "ipcam", "video", "rtsp", "hikvision", "dahua", "axis", "onvif"}

\* the keyword filter applied to the payload as received, not lower-cased
UpnpAcceptsCaseSensitive(data) ==
    LET response == Decode(data)
    IN  \E kw \in UpnpKeywords : Contains(response, kw)

\* _discover_upnp, lines 273-279: the keyword filter
UpnpAccepts(data) ==
    LET response == Lower(Decode(data))
    IN  \E kw \in UpnpKeywords : Contains(response, kw)

\* a UPnP reply recorded under the port of a Dahua recorder
UpnpDeviceNvrPort(ip) == DiscoveredDevice(ip, 37777, CAMERA, "http", "", "", "", "", "")

\* _discover_upnp, lines 280-285
UpnpDevice(ip) == DiscoveredDevice(ip, 80, CAMERA, "http", "", "", "", "", "")

----------------------------------------------------------------------------
(* _check_port *)

\* what socket()/settimeout()/connect_ex() can do: connect_ex returns 0
\* ("open"), returns an errno, or one of the calls raises ("error")
ConnectOutcomes == {"open", "refused", "timeout", "unreachable", "error"}

\* the value of future.result(): a device, None, or a raised exception
Returned(device) == [raised |-> FALSE, device |-> device]
Raised == [raised |-> TRUE, device |-> None]

\* _check_port with its handler removed
CheckPortUncaught(ip, port, outcome) ==
    IF outcome = "open"
    THEN LET entry == IF port \in DOMAIN CAMERA_PORTS THEN CAMERA_PORTS[port]
                      ELSE <<"unknown", UNKNOWN>>
         IN  Returned(DiscoveredDevice(ip, port, entry[2], entry[1], "", "", "", "", ""))
    ELSE IF outcome = "error" THEN Raised
    ELSE Returned(None)

\* a probe that takes every open port for a camera
CheckPortAllCameras(ip, port, outcome) ==
    IF outcome = "open"
    THEN Returned(DiscoveredDevice(ip, port, CAMERA, "rtsp", "", "", "", "", ""))
    ELSE Returned(None)

\* lines 168-188
CheckPort(ip, port, outcome) ==
    IF outcome = "open"
    THEN LET entry == IF port \in DOMAIN CAMERA_PORTS THEN CAMERA_PORTS[port]
                      ELSE <<"unknown", UNKNOWN>>
         IN  Returned(DiscoveredDevice(ip, port, entry[2], entry[1], "", "", "", "", ""))
    ELSE Returned(None)

----------------------------------------------------------------------------
(* _add_device: the two branches *)

\* a merge where the last non-empty value wins
MergeFieldOverwrite(old, new) == IF new # "" THEN new ELSE old

\* "if device.f and not existing.f: existing.f = device.f"
MergeField(old, new) == IF new # "" /\ old = "" THEN new ELSE old

\* a merge that keeps the existing entry as it is
MergeIntoNothing(existing, device) == existing

\* a merge that forgets the model
MergeIntoNoModel(existing, device) ==
    [existing EXCEPT !.manufacturer = MergeField(@, device.manufacturer),
                     !.name = MergeField(@, device.name)]

\* a merge that also takes over the classification of the incoming device
MergeIntoReclassify(existing, device) ==
    [existing EXCEPT !.manufacturer = MergeField(@, device.manufacturer),
                     !.model = MergeField(@, device.model),
                     !.name = MergeField(@, device.name),
                     !.device_type = device.device_type,
                     !.protocol = device.protocol]

\* lines 160-166
MergeInto(existing, device) ==
    [existing EXCEPT !.manufacturer = MergeField(@, device.manufacturer),
                     !.model = MergeField(@, device.model),
                     !.name = MergeField(@, device.name)]

\* self._discovered[key] = device
Insert(map, key, device) == (key :> device) @@ map

----------------------------------------------------------------------------
(* State *)

Main == <<0, "main">>
\* the threads scan() can start: one per call and prober
Calls == 1..MaxReuse
Probers == Calls \X {"onvif", "upnp"}
Threads == {Main} \cup Probers
NoThread == <<0, "none">>

VARIABLES
    pc,          \* position of every thread
    dev,         \* the local `device` of a thread inside _add_device
    lock,        \* holder of self._lock, or NoThread
    gen,         \* number of clear() calls so far
    objs,        \* objs[g]: the devices inserted into the map after the g-th clear;
                 \* self._discovered is objs[gen]
    call,        \* number of scan() calls begun
    args,        \* arguments of the current scan() call
    pending,     \* futures of the sweep not yet yielded by as_completed
    completed,   \* local `completed` of _scan_ports
    replies,     \* datagrams delivered so far
    outcome,     \* per call: "none", "running", "returned", "raised"
    result,      \* per call: the objects of the returned list
    joinExpired, \* probers whose join(timeout=5.0) ended by the timeout
    evidence,    \* history: per call, the (ip, port) its sources found before it returned
    max_workers, \* self.max_workers
    queue,       \* the executor's work queue: submitted futures no worker has taken
    running,     \* futures whose _check_port is running on a worker thread
    done,        \* futures finished and not yet yielded by as_completed, with their results
    probed,      \* history: per call, the (ip, port) of every _check_port call begun, in order
    progress,    \* history: per call, the (completed, total) of every on_progress invocation, in order
    input,       \* arguments of a function called on its own
    output       \* what that call returned or raised

\* the state the worker pool and the directly called functions add
auxVars == <<max_workers, queue, running, done, probed, progress, input, output>>

vars == <<pc, dev, lock, gen, objs, call, args, pending, completed,
          replies, outcome, result, joinExpired, evidence, auxVars>>

\* self._discovered
Discovered == objs[gen]

Empty == [k \in {} |-> None]

NoArgs == [port_scan |-> FALSE, onvif |-> FALSE, upnp |-> FALSE, on_progress |-> FALSE]

\* max_workers: int = 50
DefaultWorkers == 50

NoInput == [f |-> "none"]
NoOutput == [state |-> "none"]

\* NetworkScanner.__init__, and no scan begun
ScannerInit ==
    /\ pc = [t \in Threads |-> IF t = Main THEN "idle" ELSE "off"]
    /\ dev = [t \in Threads |-> None]
    /\ lock = NoThread
    /\ gen = 0
    /\ objs = [g \in {0} \cup Calls |-> Empty]
    /\ call = 0
    /\ args = NoArgs
    /\ pending = {}
    /\ completed = 0
    /\ replies = 0
    /\ outcome = [c \in Calls |-> "none"]
    /\ result = [c \in Calls |-> {}]
    /\ joinExpired = {}
    /\ evidence = [c \in Calls |-> {}]
    /\ queue = <<>>
    /\ running = {}
    /\ done = {}
    /\ probed = [c \in Calls |-> <<>>]
    /\ progress = [c \in Calls |-> <<>>]

\* NetworkScanner() with the default max_workers
Init ==
    /\ ScannerInit
    /\ max_workers = DefaultWorkers
    /\ input = NoInput
    /\ output = NoOutput

----------------------------------------------------------------------------
(* scan(), on the calling thread *)

Goto(t, label) == pc' = [pc EXCEPT ![t] = label]

\* every combination of the arguments of scan()
AllArgs == [port_scan : BOOLEAN, onvif : BOOLEAN, upnp : BOOLEAN, on_progress : BOOLEAN]

\* scan(port_scan, onvif, upnp, on_progress) is entered, as one of at most
\* `limit` calls and with arguments drawn from `choices`
ScanEnter(limit, choices) ==
    /\ pc[Main] = "idle"
    /\ call < limit
    /\ \E a \in choices : args' = a
    /\ call' = call + 1
    /\ outcome' = [outcome EXCEPT ![call + 1] = "running"]
    /\ Goto(Main, "clear")
    /\ UNCHANGED <<dev, lock, gen, objs, pending, completed, replies, result,
                   joinExpired, evidence>>
    /\ UNCHANGED auxVars

ScanCall == ScanEnter(MaxCalls, AllArgs)

\* line 311: self._discovered.clear(), without the lock
Clear ==
    /\ pc[Main] = "clear"
    /\ gen' = gen + 1
    /\ Goto(Main, "start")
    /\ UNCHANGED <<dev, lock, objs, call, args, pending, completed,
                   replies, outcome, result, joinExpired, evidence>>
    /\ UNCHANGED auxVars

\* a scan that starts both probers whatever the toggles say
StartBothProbers ==
    /\ pc[Main] = "start"
    /\ pc' = [pc EXCEPT ![Main] = "scan_ports",
                        ![<<call, "onvif">>] = "open",
                        ![<<call, "upnp">>] = "open"]
    /\ UNCHANGED <<dev, lock, gen, objs, call, args, pending, completed,
                   replies, outcome, result, joinExpired, evidence>>
    /\ UNCHANGED auxVars

\* lines 314-324: the enabled probers are started, each on a thread of its own
StartProbers ==
    /\ pc[Main] = "start"
    /\ pc' = [pc EXCEPT ![Main] = "scan_ports",
                        ![<<call, "onvif">>] = IF args.onvif THEN "open" ELSE @,
                        ![<<call, "upnp">>] = IF args.upnp THEN "open" ELSE @]
    /\ UNCHANGED <<dev, lock, gen, objs, call, args, pending, completed,
                   replies, outcome, result, joinExpired, evidence>>
    /\ UNCHANGED auxVars

\* lines 326-327 and _scan_ports lines 195-207: the targets are submitted
ScanPorts ==
    /\ pc[Main] = "scan_ports"
    /\ IF args.port_scan
       THEN /\ pending' = Targets
            /\ Goto(Main, "sweep")
       ELSE /\ Goto(Main, "join_onvif")
            /\ UNCHANGED pending
    /\ UNCHANGED <<dev, lock, gen, objs, call, args, completed, replies,
                   outcome, result, joinExpired, evidence>>
    /\ UNCHANGED auxVars

\* _scan_ports lines 209-216: as_completed yields one more future, in any
\* order; its _check_port ran on a pool thread with some connect outcome
SweepStep ==
    /\ pc[Main] = "sweep"
    /\ \E target \in pending, o \in ConnectOutcomes :
          LET r == CheckPort(target[1], target[2], o)
          IN  /\ pending' = pending \ {target}
              /\ completed' = completed + 1
              /\ evidence' = IF o = "open"
                             THEN [evidence EXCEPT ![call] = @ \cup {target}]
                             ELSE evidence
              /\ IF r.raised
                 THEN /\ outcome' = [outcome EXCEPT ![call] = "raised"]
                      /\ Goto(Main, "idle")
                      /\ UNCHANGED dev
                 ELSE /\ UNCHANGED outcome
                      /\ IF r.device # None
                         THEN /\ dev' = [dev EXCEPT ![Main] = r.device]
                              /\ Goto(Main, "add_lock")
                         ELSE UNCHANGED <<dev, pc>>
    /\ UNCHANGED <<lock, gen, objs, call, args, replies, result, joinExpired>>
    /\ UNCHANGED auxVars

\* lines 211-212: on_progress(completed, total) has been invoked once per
\* yielded future, if a callback was supplied
Progress == IF args.on_progress THEN completed ELSE 0

\* a loop left before the futures are exhausted
SweepFinishedEarly == TRUE

\* the as_completed loop is exhausted
SweepFinished == pending = {}

\* the as_completed loop and the executor's with-block end
SweepDone ==
    /\ pc[Main] = "sweep"
    /\ SweepFinished
    /\ Goto(Main, "join_onvif")
    /\ UNCHANGED <<dev, lock, gen, objs, call, args, pending, completed,
                   replies, outcome, result, joinExpired, evidence>>
    /\ UNCHANGED auxVars

\* t.join(timeout=5.0) returns when the thread has ended or, the thread
\* still running, when the 5 seconds have passed
JoinResult(t) == IF pc[t] \in {"done", "failed"} THEN "ended" ELSE "expired"

\* a join without a timeout: it returns only when the thread has ended
JoinReturnsWhenEnded(t) == JoinResult(t) = "ended"

\* t.join(timeout=5.0) returns in both cases
JoinReturns(t) == JoinResult(t) \in {"ended", "expired"}

\* lines 330-331, for the ONVIF thread if it was started
JoinOnvif ==
    /\ pc[Main] = "join_onvif"
    /\ args.onvif => JoinReturns(<<call, "onvif">>)
    /\ LET t == <<call, "onvif">>
       IN  joinExpired' = IF args.onvif /\ JoinResult(t) = "expired"
                          THEN joinExpired \cup {t} ELSE joinExpired
    /\ Goto(Main, "join_upnp")
    /\ UNCHANGED <<dev, lock, gen, objs, call, args, pending, completed,
                   replies, outcome, result, evidence>>
    /\ UNCHANGED auxVars

\* lines 330-331, for the UPnP thread if it was started
JoinUpnp ==
    /\ pc[Main] = "join_upnp"
    /\ args.upnp => JoinReturns(<<call, "upnp">>)
    /\ LET t == <<call, "upnp">>
       IN  joinExpired' = IF args.upnp /\ JoinResult(t) = "expired"
                          THEN joinExpired \cup {t} ELSE joinExpired
    /\ Goto(Main, "return")
    /\ UNCHANGED <<dev, lock, gen, objs, call, args, pending, completed,
                   replies, outcome, result, evidence>>
    /\ UNCHANGED auxVars

\* line 333: list(self._discovered.values()), a new list of the same objects
Snapshot(g, map) == {<<g, k>> : k \in DOMAIN map}

\* the arguments and locals of scan() end with the call
Return ==
    /\ pc[Main] = "return"
    /\ result' = [result EXCEPT ![call] = Snapshot(gen, Discovered)]
    /\ outcome' = [outcome EXCEPT ![call] = "returned"]
    /\ args' = NoArgs
    /\ completed' = 0
    /\ Goto(Main, "idle")
    /\ UNCHANGED <<dev, lock, gen, objs, call, pending, replies, joinExpired, evidence>>
    /\ UNCHANGED auxVars

----------------------------------------------------------------------------
(* _discover_onvif and _discover_upnp, each on its own thread *)

\* A prober ends at "done" when its loop breaks on a receive timeout and at
\* "failed" when its outer handler swallows an exception.

\* lines 221-229 / 263-267: socket(), setsockopt(), settimeout(), sendto();
\* an error of any of them is caught by the outer handler and ends the prober
OpenOutcomes == {"sent", "socket_error", "send_error"}

ProberOpen(t) ==
    /\ pc[t] = "open"
    /\ \E o \in OpenOutcomes : Goto(t, IF o = "sent" THEN "recv" ELSE "failed")
    /\ UNCHANGED <<dev, lock, gen, objs, call, args, pending, completed,
                   replies, outcome, result, joinExpired, evidence>>
    /\ UNCHANGED auxVars

\* what recvfrom() can do: deliver a datagram from some address, time out
\* after 3 seconds of silence, or fail
RecvEvents == {<<"timeout", "", <<>> >>, <<"error", "", <<>> >>}
              \cup {<<"data", ip, data>> : ip \in ReplyIps, data \in Payloads}

Found(t, ip, port) ==
    IF outcome[t[1]] = "running"
    THEN [evidence EXCEPT ![t[1]] = @ \cup {<<ip, port>>}]
    ELSE evidence

\* lines 232-256: one recvfrom() of the ONVIF loop
OnvifRecv(t) ==
    /\ t[2] = "onvif"
    /\ pc[t] = "recv"
    /\ \E e \in RecvEvents :
          IF e[1] = "data"
          THEN /\ replies < MaxReplies
               /\ replies' = replies + 1
               /\ dev' = [dev EXCEPT ![t] = OnvifDevice(e[2], e[3])]
               /\ evidence' = Found(t, e[2], 80)
               /\ Goto(t, "add_lock")
          ELSE /\ Goto(t, IF e[1] = "timeout" THEN "done" ELSE "failed")
               /\ UNCHANGED <<replies, dev, evidence>>
    /\ UNCHANGED <<lock, gen, objs, call, args, pending, completed,
                   outcome, result, joinExpired>>
    /\ UNCHANGED auxVars

\* lines 269-288: one recvfrom() of the UPnP loop
UpnpRecv(t) ==
    /\ t[2] = "upnp"
    /\ pc[t] = "recv"
    /\ \E e \in RecvEvents :
          IF e[1] = "data"
          THEN /\ replies < MaxReplies
               /\ replies' = replies + 1
               /\ IF UpnpAccepts(e[3])
                  THEN /\ dev' = [dev EXCEPT ![t] = UpnpDevice(e[2])]
                       /\ evidence' = Found(t, e[2], 80)
                       /\ Goto(t, "add_lock")
                  ELSE UNCHANGED <<dev, evidence, pc>>
          ELSE /\ Goto(t, IF e[1] = "timeout" THEN "done" ELSE "failed")
               /\ UNCHANGED <<replies, dev, evidence>>
    /\ UNCHANGED <<lock, gen, objs, call, args, pending, completed,
                   outcome, result, joinExpired>>
    /\ UNCHANGED auxVars

----------------------------------------------------------------------------
(* _add_device, on whichever thread calls it *)

\* where _add_device returns to: the as_completed loop, the recvfrom loop,
\* or the caller of a direct _add_device call
ReturnTo(t) == IF t # Main THEN "recv" ELSE IF call = 0 THEN "idle" ELSE "sweep"

\* a lock that never blocks
AcquirableAlways == TRUE

\* threading.Lock: acquire succeeds only while nobody holds it
Acquirable == lock = NoThread

\* lines 155-156: with self._lock (enter), then "if key not in self._discovered"
AddLock(t) ==
    /\ pc[t] = "add_lock"
    /\ Acquirable
    /\ lock' = t
    /\ Goto(t, IF KeyOf(dev[t]) \notin DOMAIN Discovered THEN "add_insert" ELSE "add_merge")
    /\ UNCHANGED <<dev, gen, objs, call, args, pending, completed,
                   replies, outcome, result, joinExpired, evidence>>
    /\ UNCHANGED auxVars

\* line 157: self._discovered[key] = device, and the lock is released
AddInsert(t) ==
    /\ pc[t] = "add_insert"
    /\ objs' = [objs EXCEPT ![gen] = Insert(@, KeyOf(dev[t]), dev[t])]
    /\ lock' = NoThread
    /\ dev' = [dev EXCEPT ![t] = None]
    /\ Goto(t, ReturnTo(t))
    /\ UNCHANGED <<gen, call, args, pending, completed, replies,
                   outcome, result, joinExpired, evidence>>
    /\ UNCHANGED auxVars

\* lines 160-166: existing = self._discovered[key] and the three merges on
\* that object, and the lock is released.  A KeyError (the map was cleared
\* since line 156) leaves the with block, releasing the lock, and ends the
\* prober in its outer handler, or leaves scan() on the calling thread.
AddMerge(t) ==
    /\ pc[t] = "add_merge"
    /\ LET key == KeyOf(dev[t])
       IN  IF key \in DOMAIN Discovered
           THEN /\ objs' = [objs EXCEPT ![gen][key] = MergeInto(@, dev[t])]
                /\ Goto(t, ReturnTo(t))
                /\ UNCHANGED outcome
           ELSE /\ Goto(t, IF t = Main THEN "idle" ELSE "failed")
                /\ outcome' = IF t = Main /\ call > 0
                              THEN [outcome EXCEPT ![call] = "raised"] ELSE outcome
                /\ UNCHANGED objs
    /\ lock' = NoThread
    /\ dev' = [dev EXCEPT ![t] = None]
    /\ UNCHANGED <<gen, call, args, pending, completed, replies,
                   result, joinExpired, evidence>>
    /\ UNCHANGED auxVars

----------------------------------------------------------------------------
(* The scanner in use: scan() calls from one caller *)

Next ==
    \/ ScanCall \/ Clear \/ StartProbers \/ ScanPorts
    \/ SweepStep \/ SweepDone \/ JoinOnvif \/ JoinUpnp \/ Return
    \/ \E t \in Probers : ProberOpen(t) \/ OnvifRecv(t) \/ UpnpRecv(t)
    \/ \E t \in Threads : AddLock(t) \/ AddInsert(t) \/ AddMerge(t)

Spec == Init /\ [][Next]_vars

----------------------------------------------------------------------------
(* A network that never falls silent: past the MaxReplies datagrams that   *)
(* are counted, recvfrom() keeps delivering datagrams to a prober, so its  *)
(* loop need never see the 3 seconds of silence that end it.               *)

\* one more recvfrom() of the ONVIF loop that delivers a datagram
OnvifFlood(t) ==
    /\ t[2] = "onvif"
    /\ pc[t] = "recv"
    /\ replies = MaxReplies
    /\ \E ip \in ReplyIps, data \in Payloads :
          /\ dev' = [dev EXCEPT ![t] = OnvifDevice(ip, data)]
          /\ evidence' = Found(t, ip, 80)
    /\ Goto(t, "add_lock")
    /\ UNCHANGED <<lock, gen, objs, call, args, pending, completed, replies,
                   outcome, result, joinExpired>>
    /\ UNCHANGED auxVars

\* one more recvfrom() of the UPnP loop that delivers a datagram
UpnpFlood(t) ==
    /\ t[2] = "upnp"
    /\ pc[t] = "recv"
    /\ replies = MaxReplies
    /\ \E ip \in ReplyIps, data \in Payloads :
          IF UpnpAccepts(data)
          THEN /\ dev' = [dev EXCEPT ![t] = UpnpDevice(ip)]
               /\ evidence' = Found(t, ip, 80)
               /\ Goto(t, "add_lock")
          ELSE UNCHANGED <<dev, evidence, pc>>
    /\ UNCHANGED <<lock, gen, objs, call, args, pending, completed, replies,
                   outcome, result, joinExpired>>
    /\ UNCHANGED auxVars

\* the callback plays no part in whether scan() returns
LiveArgs == {a \in AllArgs : ~a.on_progress}

ScanLive == ScanEnter(MaxCalls, LiveArgs)

NextLive ==
    \/ ScanLive \/ Clear \/ StartProbers \/ ScanPorts
    \/ SweepStep \/ SweepDone \/ JoinOnvif \/ JoinUpnp \/ Return
    \/ \E t \in Probers : ProberOpen(t) \/ OnvifRecv(t) \/ UpnpRecv(t)
    \/ \E t \in Probers : OnvifFlood(t) \/ UpnpFlood(t)
    \/ \E t \in Threads : AddLock(t) \/ AddInsert(t) \/ AddMerge(t)

\* the steps of the calling thread other than waiting for the lock: each
\* ends in bounded time (a connect within self.timeout, a join within 5 s)
MainStep ==
    \/ Clear \/ StartProbers \/ ScanPorts \/ SweepStep \/ SweepDone
    \/ JoinOnvif \/ JoinUpnp \/ Return
    \/ AddInsert(Main) \/ AddMerge(Main)

\* a thread inside the with block of _add_device leaves it
LockHolderStep == \E t \in Probers : AddInsert(t) \/ AddMerge(t)

\* Threads are scheduled fairly: the calling thread keeps running, it gets
\* the lock if the lock is free again and again, and a thread holding the
\* lock leaves the with block.  Nothing is assumed about when, or whether,
\* a prober's recvfrom() times out.
SpecLive ==
    /\ Init /\ [][NextLive]_vars
    /\ WF_vars(MainStep)
    /\ SF_vars(AddLock(Main))
    /\ WF_vars(LockHolderStep)

----------------------------------------------------------------------------
(* The scanner reused: a second scan() on the same object.  The calls run  *)
(* without the UPnP prober and without a progress callback.                *)

ReuseArgs == {a \in AllArgs : ~a.upnp /\ ~a.on_progress}

ScanAgain == ScanEnter(MaxReuse, ReuseArgs)

NextReuse ==
    \/ ScanAgain \/ Clear \/ StartProbers \/ ScanPorts
    \/ SweepStep \/ SweepDone \/ JoinOnvif \/ JoinUpnp \/ Return
    \/ \E t \in Probers : ProberOpen(t) \/ OnvifRecv(t)
    \/ \E t \in Threads : AddLock(t) \/ AddInsert(t) \/ AddMerge(t)

SpecReuse == Init /\ [][NextReuse]_vars

----------------------------------------------------------------------------
(* _add_device called directly, one call after the other, with any device  *)

\* _add_device as a function of the map, lines 152-166
AddDevice(map, device) ==
    LET key == KeyOf(device)
    IN  IF key \notin DOMAIN map
        THEN Insert(map, key, device)
        ELSE [map EXCEPT ![key] = MergeInto(@, device)]

MergeDeviceTypes == {<<CAMERA, "rtsp">>, <<UNKNOWN, "http">>}

\* the devices submitted: every combination of the enrichment fields under
\* one key, and a few devices under a second key
TestDevices ==
    {DiscoveredDevice("10.0.0.7", 80, tp[1], tp[2], nm, mf, md, mac, "") :
        tp \in MergeDeviceTypes, nm \in {"", "lobby"},
        mf \in {"", "Hikvision", "Dahua"}, md \in {"", "DS-2CD"}, mac \in {"", "aa:bb"}}
    \cup
    {DiscoveredDevice("10.0.0.7", 554, tp[1], tp[2], "", mf, "", "", "rtsp://10.0.0.7/live") :
        tp \in MergeDeviceTypes, mf \in {"", "Dahua"}}

\* one whole _add_device(device) call on a scanner that is not scanning;
\* dev[Main] keeps the argument of the last call
DirectAdd ==
    /\ pc[Main] = "idle"
    /\ call = 0
    /\ Acquirable
    /\ \E device \in TestDevices :
          /\ dev' = [dev EXCEPT ![Main] = device]
          /\ objs' = [objs EXCEPT ![gen] = AddDevice(@, device)]
    /\ UNCHANGED <<pc, lock, gen, call, args, pending, completed, replies,
                   outcome, result, joinExpired, evidence>>
    /\ UNCHANGED auxVars

NextMerge == DirectAdd

SpecMerge == Init /\ [][NextMerge]_vars

----------------------------------------------------------------------------
(* _scan_ports with its ThreadPoolExecutor: the futures are the positions  *)
(* of the targets list; a worker thread runs one _check_port at a time.    *)

\* range(1, 255), cut down to range(1, SweepHosts + 1), as a list
HostRangeFromZero == [i \in 1..(SweepHosts + 1) |-> i - 1]

HostRange == [i \in 1..SweepHosts |-> i]

\* self.CAMERA_PORTS.keys(), cut down to SweepPorts keys, as a list
PortKeys == SubSeq(SweptPorts, 1, SweepPorts)

\* lines 195-199: the nested comprehension, hosts outermost
TargetList ==
    [n \in 1..(Len(HostRange) * Len(PortKeys)) |->
        <<HostIp(HostRange[((n - 1) \div Len(PortKeys)) + 1]),
          PortKeys[((n - 1) % Len(PortKeys)) + 1]>>]

\* line 200: total = len(targets)
Total == Len(TargetList)

\* a callback given what is left instead of what is done
CallbackArgsRemaining(n) == <<Total - n, Total>>

\* line 212: on_progress(completed, total)
CallbackArgs(n) == <<n, Total>>

\* the arguments of a scan() that sweeps or not, with or without a callback,
\* and starts no prober
SweepArgs == {a \in AllArgs : ~a.onvif /\ ~a.upnp}

ScanSweep == ScanEnter(MaxCalls, SweepArgs)

\* lines 326-327 and _scan_ports lines 195-207: every target is submitted,
\* in the order of the list, and waits in the executor's queue
Submit ==
    /\ pc[Main] = "scan_ports"
    /\ IF args.port_scan
       THEN /\ queue' = [n \in 1..Len(TargetList) |-> n]
            /\ Goto(Main, "sweep")
       ELSE /\ Goto(Main, "join_onvif")
            /\ UNCHANGED queue
    /\ UNCHANGED <<dev, lock, gen, objs, call, args, pending, completed, replies,
                   outcome, result, joinExpired, evidence>>
    /\ UNCHANGED <<max_workers, running, done, probed, progress, input, output>>

\* an executor that starts a thread for every work item
IdleWorkerAlways == TRUE

\* ThreadPoolExecutor(max_workers): at most max_workers worker threads
\* exist, and each runs one work item at a time
IdleWorker == Cardinality(running) < max_workers

\* a worker thread takes the oldest work item and calls _check_port(ip, port)
WorkerStart ==
    /\ queue # <<>>
    /\ IdleWorker
    /\ running' = running \cup {Head(queue)}
    /\ queue' = Tail(queue)
    /\ probed' = [probed EXCEPT ![call] = Append(@, TargetList[Head(queue)])]
    /\ UNCHANGED <<pc, dev, lock, gen, objs, call, args, pending, completed, replies,
                   outcome, result, joinExpired, evidence>>
    /\ UNCHANGED <<max_workers, done, progress, input, output>>

\* _check_port returns on its worker thread, with some connect outcome, and
\* the future is done
WorkerFinish ==
    /\ \E n \in running, o \in ConnectOutcomes :
          /\ running' = running \ {n}
          /\ done' = done \cup {<<n, CheckPort(TargetList[n][1], TargetList[n][2], o)>>}
          /\ evidence' = IF o = "open"
                         THEN [evidence EXCEPT ![call] = @ \cup {TargetList[n]}]
                         ELSE evidence
    /\ UNCHANGED <<pc, dev, lock, gen, objs, call, args, pending, completed, replies,
                   outcome, result, joinExpired>>
    /\ UNCHANGED <<max_workers, queue, probed, progress, input, output>>

\* lines 209-216: as_completed yields a finished future, whichever; the
\* counter, the callback, future.result() and _add_device follow
Yield ==
    /\ pc[Main] = "sweep"
    /\ \E f \in done :
          /\ done' = done \ {f}
          /\ completed' = completed + 1
          /\ progress' = IF args.on_progress
                         THEN [progress EXCEPT ![call] = Append(@, CallbackArgs(completed + 1))]
                         ELSE progress
          /\ IF f[2].raised
             THEN /\ outcome' = [outcome EXCEPT ![call] = "raised"]
                  /\ Goto(Main, "idle")
                  /\ UNCHANGED dev
             ELSE /\ UNCHANGED outcome
                  /\ IF f[2].device # None
                     THEN /\ dev' = [dev EXCEPT ![Main] = f[2].device]
                          /\ Goto(Main, "add_lock")
                     ELSE UNCHANGED <<dev, pc>>
    /\ UNCHANGED <<lock, gen, objs, call, args, pending, replies, result,
                   joinExpired, evidence>>
    /\ UNCHANGED <<max_workers, queue, running, probed, input, output>>

\* the as_completed loop is exhausted and the with block has shut the
\* executor down (shutdown(wait=True))
PoolDone ==
    /\ pc[Main] = "sweep"
    /\ queue = <<>> /\ running = {} /\ done = {}
    /\ Goto(Main, "join_onvif")
    /\ UNCHANGED <<dev, lock, gen, objs, call, args, pending, completed,
                   replies, outcome, result, joinExpired, evidence>>
    /\ UNCHANGED auxVars

\* NetworkScanner(max_workers=w)
InitSweep ==
    /\ ScannerInit
    /\ max_workers \in 1..MaxWorkers
    /\ input = NoInput
    /\ output = NoOutput

\* no two targets share a key, so the sweep alone takes the insert branch
NextSweep ==
    \/ ScanSweep \/ Clear \/ StartProbers \/ Submit
    \/ WorkerStart \/ WorkerFinish \/ Yield \/ PoolDone
    \/ JoinOnvif \/ JoinUpnp \/ Return
    \/ AddLock(Main) \/ AddInsert(Main)

SpecSweep == InitSweep /\ [][NextSweep]_vars

\* every probe ends within its timeout (settimeout, line 172) and a worker
\* thread that can take a work item does
SpecSweepFair ==
    SpecSweep /\ WF_vars(WorkerStart) /\ WF_vars(WorkerFinish)

----------------------------------------------------------------------------
(* Functions called on their own, with any arguments: _check_port,         *)
(* DiscoveredDevice(...) and NetworkScanner(...)                           *)

\* a call ends by returning a value or by raising
Value(v) == [state |-> "returned", raised |-> FALSE, value |-> v]
Exception == [state |-> "returned", raised |-> TRUE, value |-> "exception"]

\* _check_port(ip, port): a swept host, a foreign host, a malformed address;
\* the ports of the table and one port outside it
ProbeIps == {HostIp(1), "10.0.0.5", "not-an-ip"}
ProbePorts == DOMAIN CAMERA_PORTS \cup {22}

CheckPortInputs ==
    [f : {"_check_port"}, ip : ProbeIps, port : ProbePorts, connect : ConnectOutcomes]

CallCheckPort ==
    /\ input.f = "_check_port"
    /\ output.state = "none"
    /\ LET r == CheckPort(input.ip, input.port, input.connect)
       IN  output' = IF r.raised THEN Exception ELSE Value(r.device)
    /\ UNCHANGED <<pc, dev, lock, gen, objs, call, args, pending, completed, replies,
                   outcome, result, joinExpired, evidence>>
    /\ UNCHANGED <<max_workers, queue, running, done, probed, progress, input>>

\* DiscoveredDevice(ip=, port=, protocol=, url=), the other fields defaulted
DeviceProtocols == {"rtsp", "http", "onvif", "https", "", "unknown", "RTSP"}
DeviceIps == {"10.0.0.5", "not-an-ip", ""}
DevicePorts == {554, 80, 0}
DeviceUrls == {"", "rtsp://cam.local/live"}

DeviceInputs ==
    [f : {"DiscoveredDevice"}, protocol : DeviceProtocols, ip : DeviceIps,
     port : DevicePorts, url : DeviceUrls]

CallDevice ==
    /\ input.f = "DiscoveredDevice"
    /\ output.state = "none"
    /\ output' = Value(DiscoveredDevice(input.ip, input.port, UNKNOWN, input.protocol,
                                        "", "", "", "", input.url))
    /\ UNCHANGED <<pc, dev, lock, gen, objs, call, args, pending, completed, replies,
                   outcome, result, joinExpired, evidence>>
    /\ UNCHANGED <<max_workers, queue, running, done, probed, progress, input>>

\* the subnet argument: <<>> is None, <<s>> is the string s
SubnetArgs == {<<>>, <<"">>, <<"10.1.2">>, <<"172.16.0">>}

\* what the three socket calls of _detect_subnet can do
DetectOutcomes == {"ok", "socket_error", "connect_error", "getsockname_error"}

\* the local address getsockname() reports, as the list local_ip.split(".")
LocalIps == {<<"192", "168", "0", "17">>, <<"10", "0", "0", "5">>,
             <<"172", "16", "254", "1">>, <<"192", "168", "1", "20">>}

\* parts[:n]
Take(parts, n) == SubSeq(parts, 1, IF Len(parts) < n THEN Len(parts) ELSE n)

\* ".".join(parts)
RECURSIVE Join(_)
Join(parts) ==
    IF parts = <<>> THEN ""
    ELSE IF Len(parts) = 1 THEN parts[1]
    ELSE parts[1] \o "." \o Join(Tail(parts))

\* _detect_subnet with its handler removed
DetectSubnetUncaught(o, local_ip) ==
    IF o = "ok" THEN Returned(Join(Take(local_ip, 3))) ELSE [raised |-> TRUE, device |-> ""]

\* _detect_subnet, lines 139-150
DetectSubnet(o, local_ip) ==
    IF o = "ok" THEN Returned(Join(Take(local_ip, 3))) ELSE Returned("192.168.1")

\* subnet is not None
TruthyNotNone(subnet) == subnet # <<>>

\* bool(subnet)
Truthy(subnet) == subnet # <<>> /\ subnet[1] # ""

ScannerInputs ==
    [f : {"NetworkScanner"}, subnet : SubnetArgs, detect : DetectOutcomes,
     local_ip : LocalIps]

\* line 133: self.subnet = subnet or self._detect_subnet(); the value holds
\* self.subnet and whether _detect_subnet was called
CallScanner ==
    /\ input.f = "NetworkScanner"
    /\ output.state = "none"
    /\ IF Truthy(input.subnet)
       THEN output' = Value([subnet |-> input.subnet[1], detected |-> FALSE])
       ELSE LET r == DetectSubnet(input.detect, input.local_ip)
            IN  output' = IF r.raised THEN Exception
                          ELSE Value([subnet |-> r.device, detected |-> TRUE])
    /\ UNCHANGED <<pc, dev, lock, gen, objs, call, args, pending, completed, replies,
                   outcome, result, joinExpired, evidence>>
    /\ UNCHANGED <<max_workers, queue, running, done, probed, progress, input>>

InitCalls ==
    /\ ScannerInit
    /\ max_workers = DefaultWorkers
    /\ input \in CheckPortInputs \cup DeviceInputs \cup ScannerInputs
    /\ output = NoOutput

NextCalls == CallCheckPort \/ CallDevice \/ CallScanner

SpecCalls == InitCalls /\ [][NextCalls]_vars

----------------------------------------------------------------------------
(* Properties *)

TypeOK ==
    /\ lock \in Threads \cup {NoThread}
    /\ gen \in {0} \cup Calls
    /\ call \in {0} \cup Calls
    /\ replies \in 0..MaxReplies

Generations == {0} \cup Calls

\* the identity of a device, written out from its fields
Identity(device) == <<device.ip, device.port>>
KeyString(device) == device.ip \o ":" \o ToString(device.port)

\* the device an element of a returned list refers to
Deref(r) == objs[r[1]][r[2]]

\* the returned list of call c as the caller sees it now
ListView(c) == [r \in result[c] |-> Deref(r)]

\* thread t completes the insert branch / the merge branch in this step
InsertStep(t) == pc[t] = "add_insert" /\ pc'[t] # "add_insert"
MergeStep(t) == pc[t] = "add_merge" /\ pc'[t] # "add_merge"

InAddDevice(t) == pc[t] \in {"add_insert", "add_merge"}

Ended(t) == pc[t] \in {"done", "failed"}

----------------------------------------------------------------------------
\* C1: during a scan and in the returned list there is at most one device
\* per (ip, port): every entry of the map is stored under the key of its own
\* ip and port, and no two entries of the map or of a returned list agree in
\* both ip and port.
C1_UniqueIdentity ==
    /\ \A g \in Generations : \A k \in DOMAIN objs[g] :
          /\ k = KeyString(objs[g][k])
          /\ \A k2 \in DOMAIN objs[g] :
                Identity(objs[g][k2]) = Identity(objs[g][k]) => k2 = k
    /\ \A c \in Calls : \A r1 \in result[c], r2 \in result[c] :
          Identity(Deref(r1)) = Identity(Deref(r2)) => r1 = r2

\* a returned list with two devices, one of them found by the sweep and
\* enriched through a merge of an ONVIF reply, the other on the same port
C1_Witness ==
    \E c \in Calls :
       /\ outcome[c] = "returned"
       /\ \E r1 \in result[c], r2 \in result[c] :
             /\ r1 # r2
             /\ Deref(r1).port = Deref(r2).port
             /\ Deref(r1).protocol = "http"
             /\ Deref(r1).device_type = UNKNOWN
             /\ Deref(r1).manufacturer # ""

\* C2: the existence check and the insert/update of _add_device are atomic
\* with respect to every other _add_device: at most one thread is between
\* the check and the update; a thread stores through the insert branch only
\* while the key is still absent (so one submitter inserts and the others
\* merge), and it stores its device as it is; a merge leaves every field the
\* incoming device carried non-empty; and no step empties a field of an
\* entry, so no update is lost.
C2_Mutex ==
    \A t1 \in Threads, t2 \in Threads :
       InAddDevice(t1) /\ InAddDevice(t2) => t1 = t2

C2_Steps ==
    /\ \A t \in Threads :
          /\ InsertStep(t) =>
                /\ KeyOf(dev[t]) \notin DOMAIN objs[gen]
                /\ objs'[gen][KeyOf(dev[t])] = dev[t]
          /\ MergeStep(t) /\ KeyOf(dev[t]) \in DOMAIN objs[gen] =>
                \A f \in {"manufacturer", "model", "name"} :
                   dev[t][f] # "" => objs'[gen][KeyOf(dev[t])][f] # ""
    /\ \A g \in Generations : \A k \in DOMAIN objs[g] :
          /\ k \in DOMAIN objs'[g]
          /\ \A f \in {"manufacturer", "model", "name"} :
                objs[g][k][f] # "" => objs'[g][k][f] # ""

C2_AtomicAddOrMerge == []C2_Mutex /\ [][C2_Steps]_vars

\* three sources submit the same key: the sweep's device was inserted, an
\* ONVIF reply was merged into it, and the UPnP prober waits for the lock
\* while another thread is inside _add_device
C2_Witness ==
    \E c \in Calls :
       /\ pc[<<c, "upnp">>] = "add_lock"
       /\ lock # NoThread
       /\ KeyOf(dev[<<c, "upnp">>]) \in DOMAIN objs[gen]
       /\ LET e == objs[gen][KeyOf(dev[<<c, "upnp">>])]
          IN  e.device_type = UNKNOWN /\ e.manufacturer # ""

\* C3: first writer wins per enrichment field: over any sequence of
\* _add_device calls, once manufacturer, model, name or mac of an entry is
\* non-empty the entry stays in the map and that field keeps its value.
C3_Step ==
    \A g \in Generations : \A k \in DOMAIN objs[g] :
       \A f \in {"manufacturer", "model", "name", "mac"} :
          objs[g][k][f] # "" =>
             k \in DOMAIN objs'[g] /\ objs'[g][k][f] = objs[g][k][f]

C3_FirstWriterWins == [][C3_Step]_vars

\* the last call submitted another non-empty manufacturer and an empty model
\* for a key whose entry had both set: the entry kept its own
C3_Witness ==
    /\ dev[Main] # None
    /\ KeyOf(dev[Main]) \in DOMAIN Discovered
    /\ LET e == Discovered[KeyOf(dev[Main])]
       IN  /\ dev[Main].manufacturer # ""
           /\ e.manufacturer \notin {"", dev[Main].manufacturer}
           /\ dev[Main].model = ""
           /\ e.model # ""

\* C4: _add_device computes exactly this: with no entry under the device's
\* key the map gains that device, unchanged, under that key; with an entry,
\* each of manufacturer, model and name of the entry becomes the device's
\* value if the entry's is empty and the device's is not, and keeps its value
\* otherwise; no other key of the map is touched.
C4_Step ==
    LET d == dev'[Main]
        k == KeyString(d)
        m == objs[gen]
        m2 == objs'[gen]
    IN  IF k \notin DOMAIN m
        THEN /\ DOMAIN m2 = DOMAIN m \cup {k}
             /\ m2[k] = d
             /\ \A x \in DOMAIN m : m2[x] = m[x]
        ELSE /\ DOMAIN m2 = DOMAIN m
             /\ \A x \in DOMAIN m \ {k} : m2[x] = m[x]
             /\ \A f \in {"manufacturer", "model", "name"} :
                   m2[k][f] = IF m[k][f] = "" /\ d[f] # "" THEN d[f] ELSE m[k][f]

C4_AddOrMergeResult == [][C4_Step]_vars

\* the last call merged into an entry another device had inserted: it filled
\* the model and left the manufacturer, beside an entry under a second key
C4_Witness ==
    /\ dev[Main] # None
    /\ Cardinality(DOMAIN Discovered) = 2
    /\ KeyOf(dev[Main]) \in DOMAIN Discovered
    /\ LET e == Discovered[KeyOf(dev[Main])]
       IN  /\ e.mac # dev[Main].mac
           /\ dev[Main].manufacturer = ""
           /\ e.manufacturer # ""
           /\ dev[Main].model # ""
           /\ e.model = dev[Main].model
           /\ e.name = ""

\* C5: a merge leaves device_type, protocol, url, ip and port of the existing
\* entry unchanged, whatever the incoming device holds.
C5_Step ==
    \A g \in Generations : \A k \in DOMAIN objs[g] :
       /\ k \in DOMAIN objs'[g]
       /\ \A f \in {"device_type", "protocol", "url", "ip", "port"} :
             objs'[g][k][f] = objs[g][k][f]

C5_MergeFrame == [][C5_Step]_vars

\* the last call submitted an Unknown/http device for a key whose entry is a
\* Camera with an rtsp url, and enriched it
C5_Witness ==
    /\ dev[Main] # None
    /\ KeyOf(dev[Main]) \in DOMAIN Discovered
    /\ LET e == Discovered[KeyOf(dev[Main])]
       IN  /\ dev[Main].device_type = UNKNOWN
           /\ e.device_type = CAMERA
           /\ e.protocol # dev[Main].protocol
           /\ e.url # dev[Main].url
           /\ dev[Main].manufacturer # ""
           /\ e.manufacturer = dev[Main].manufacturer
           /\ e.mac # dev[Main].mac

\* C6: scan() never ends in an exception, for every choice of the toggles
\* and the callback and every failure of the network calls.
C6_NeverRaises == \A c \in Calls : outcome[c] # "raised"

\* a call has returned although both of its probers failed
C6_Witness ==
    \E c \in Calls :
       /\ outcome[c] = "returned"
       /\ pc[<<c, "onvif">>] = "failed"
       /\ pc[<<c, "upnp">>] = "failed"

\* C7: nothing found is dropped: the list a call returns holds a device for
\* every (ip, port) one of its sources found while the call was running.
C7_NothingDropped ==
    \A c \in Calls :
       outcome[c] = "returned" =>
          \A e \in evidence[c] : \E r \in result[c] : Identity(Deref(r)) = e

C9_Step ==
    \A c \in Calls :
       outcome[c] = "returned" =>
          result'[c] = result[c] /\ ListView(c)' = ListView(c)

C9_ImmutableSnapshot == [][C9_Step]_vars

\* C10: each scan() starts from an empty result set: every device of the
\* list a call returns has the (ip, port) of something a source of that very
\* call found.
C10_FreshResultSet ==
    \A c \in Calls :
       outcome[c] = "returned" =>
          \A r \in result[c] : Identity(Deref(r)) \in evidence[c]

\* the number of probes of one sweep: hosts times table ports (254 x 8 in
\* the code)
ProbeCount == SweepHosts * SweepPorts

\* the main thread leaves scan() through its return statement in this step
Returning == pc[Main] = "return" /\ pc'[Main] = "idle"

\* C11: progress monotonicity: the k-th invocation of the callback within a
\* scan carries completed = k and total = N, the number of probes, whatever
\* the order in which the probes complete and however many ports are open;
\* and when scan() returns the callback has been invoked exactly N times if
\* port scanning was enabled and a callback supplied, and never otherwise.
C11_Log ==
    \A c \in Calls :
       /\ Len(progress[c]) <= ProbeCount
       /\ \A k \in DOMAIN progress[c] : progress[c][k] = <<k, ProbeCount>>

C11_AtReturn ==
    Returning =>
       Len(progress[call]) = IF args.port_scan /\ args.on_progress THEN ProbeCount ELSE 0

C11_ProgressMonotonic == []C11_Log /\ [][C11_AtReturn]_vars

\* a scan with a callback has returned a list of one device: the callback
\* was invoked once per probe, one probe found a port open and the others
\* did not
C11_Witness ==
    /\ outcome[1] = "returned"
    /\ Len(progress[1]) = ProbeCount
    /\ Cardinality(result[1]) = 1

\* the (protocol, device_type) the static table gives a port
TablePair(port) ==
    CASE port \in {554, 8554} -> <<"rtsp", CAMERA>>
      [] port \in {80, 8080} -> <<"http", UNKNOWN>>
      [] port = 443 -> <<"https", UNKNOWN>>
      [] port \in {37777, 34567, 9000} -> <<"http", NVR>>

TablePorts == {554, 8554, 80, 8080, 443, 37777, 34567, 9000}

\* C12: determinism of classification: for every port of the static table,
\* a probe whose connect succeeds returns a device with the probed ip and
\* port and exactly the table's (protocol, device_type) pair, and a probe
\* whose connect does not succeed (refused, timed out, unreachable, or an
\* error of a socket call) returns no device; the probe never raises.
C12_Classification ==
    input.f = "_check_port" /\ output.state = "returned" /\ input.port \in TablePorts =>
       /\ ~output.raised
       /\ IF input.connect = "open"
          THEN /\ output.value # None
               /\ output.value.ip = input.ip
               /\ output.value.port = input.port
               /\ <<output.value.protocol, output.value.device_type>> = TablePair(input.port)
          ELSE output.value = None

\* a probe of port 37777 connected and returned an NVR device
C12_Witness ==
    /\ input.f = "_check_port"
    /\ input.port = 37777
    /\ input.connect = "open"
    /\ output.state = "returned"
    /\ output.value.device_type = NVR
    /\ output.value.protocol = "http"

\* hosts subnet.1 .. subnet.SweepHosts (254 in the code) crossed with the
\* swept keys of the port table
CrossProduct ==
    {<<Subnet \o "." \o ToString(i), p>> :
        i \in 1..SweepHosts, p \in {SweptPorts[j] : j \in 1..SweepPorts}}

\* C13: the TCP sweep of one scan call issues probes for exactly the cross
\* product of the hosts subnet.1 .. subnet.254 and the keys of the port
\* table, each pair once: every probe begun is for a pair of the cross
\* product, never for a port outside the table nor for host .0 or .255, no
\* pair is probed twice, and once the sweep is over every pair has been
\* probed (none at all if port scanning is disabled).
C13_ExactCrossProduct ==
    /\ \A c \in Calls :
          /\ \A i \in DOMAIN probed[c], j \in DOMAIN probed[c] :
                probed[c][i] = probed[c][j] => i = j
          /\ \A i \in DOMAIN probed[c] :
                /\ probed[c][i] \in CrossProduct
                /\ probed[c][i][2] \in TablePorts
                /\ probed[c][i][1] \notin {Subnet \o ".0", Subnet \o ".255"}
    /\ pc[Main] \in {"join_onvif", "join_upnp", "return"} =>
          IF args.port_scan
          THEN /\ {probed[call][i] : i \in DOMAIN probed[call]} = CrossProduct
               /\ Len(probed[call]) = ProbeCount
          ELSE probed[call] = <<>>

\* a sweep is over: every pair was probed, two of them were found open
C13_Witness ==
    /\ pc[Main] = "return"
    /\ Len(probed[call]) = ProbeCount
    /\ Cardinality(DOMAIN Discovered) = 2

\* the current call is scan(port_scan=True, onvif=False, upnp=False), past
\* its clear(), and no connect of its sweep has succeeded so far
SweepOnlyAllFailed ==
    /\ call > 0
    /\ outcome[call] # "none"
    /\ pc[Main] \notin {"idle", "clear"}
    /\ args.port_scan /\ ~args.onvif /\ ~args.upnp
    /\ evidence[call] = {}

\* C14: graceful degradation: while every TCP connect of a
\* scan(port_scan=true, onvif=false, upnp=false) has failed (refused, timed
\* out, unreachable, or an error of a socket call) the result map is empty
\* and the call has not raised, and if all of them failed the call returns
\* the empty list.
C14_MapStaysEmpty ==
    SweepOnlyAllFailed => DOMAIN Discovered = {} /\ outcome[call] = "running"

C14_ReturnsEmpty ==
    SweepOnlyAllFailed /\ Returning =>
       result'[call] = {} /\ outcome'[call] = "returned"

C14_GracefulDegradation == []C14_MapStaysEmpty /\ [][C14_ReturnsEmpty]_vars

\* C15: every scan call runs to completion and returns: with each TCP probe
\* ending within its timeout and the threads scheduled fairly, a call that
\* has begun eventually returns, whatever the network does, also when a
\* prober keeps receiving replies and never sees a receive timeout.
C15_ScanReturns ==
    \A c \in 1..MaxCalls : (outcome[c] = "running") ~> (outcome[c] = "returned")

\* a call has returned while its ONVIF prober, past the counted datagrams
\* and with both of their devices stored, holds one more reply
C15_Witness ==
    /\ outcome[1] = "returned"
    /\ replies = MaxReplies
    /\ pc[<<1, "onvif">>] = "add_lock"
    /\ \A ip \in ReplyIps :
          /\ (ip \o ":80") \in DOMAIN Discovered
          /\ Discovered[ip \o ":80"].protocol = "onvif"

\* C16: URL derivation: a device constructed without a url gets
\* rtsp://{ip}:{port}/stream for protocol rtsp, http://{ip}:{port}/ for http
\* and onvif, and {ip}:{port} for every other protocol (https and the empty
\* string among them); a device constructed with a non-empty url keeps it;
\* the construction never fails, also for a malformed ip.  The two devices
\* the specification names get the urls it names.
C16_UrlDerivation ==
    input.f = "DiscoveredDevice" /\ output.state = "returned" =>
       /\ ~output.raised
       /\ LET url == output.value.url
              hostport == input.ip \o ":" \o ToString(input.port)
          IN  /\ input.url # "" => url = input.url
              /\ input.url = "" /\ input.protocol = "rtsp" =>
                    url = "rtsp://" \o hostport \o "/stream"
              /\ input.url = "" /\ input.protocol \in {"http", "onvif"} =>
                    url = "http://" \o hostport \o "/"
              /\ input.url = "" /\ input.protocol \notin {"rtsp", "http", "onvif"} =>
                    url = hostport
              /\ input.url = "" /\ input.ip = "10.0.0.5" /\ input.port = 554
                    /\ input.protocol = "rtsp" => url = "rtsp://10.0.0.5:554/stream"
              /\ input.url = "" /\ input.ip = "10.0.0.5" /\ input.port = 80
                    /\ input.protocol = "http" => url = "http://10.0.0.5:80/"
       /\ output.value.ip = input.ip
       /\ output.value.port = input.port
       /\ output.value.protocol = input.protocol

\* an https device with a malformed ip was constructed without a url
C16_Witness ==
    /\ input.f = "DiscoveredDevice"
    /\ input.protocol = "https"
    /\ input.ip = "not-an-ip"
    /\ input.url = ""
    /\ output.state = "returned"
    /\ output.value.url = "not-an-ip:554"

\* C17: subnet fallback: with no subnet supplied (None, or the empty
\* string), if socket creation, the UDP connect or reading the local
\* address fails, the scanner's subnet is "192.168.1" and no error reaches
\* the caller; if detection succeeds the subnet is the first three octets of
\* the local address; a supplied non-empty subnet is used as given, without
\* detection.
C17_SubnetFallback ==
    input.f = "NetworkScanner" /\ output.state = "returned" =>
       /\ ~output.raised
       /\ LET supplied == input.subnet # <<>> /\ input.subnet # <<"">>
              octets == input.local_ip
          IN  /\ supplied =>
                    output.value.subnet = input.subnet[1] /\ ~output.value.detected
              /\ ~supplied => output.value.detected
              /\ ~supplied /\ input.detect # "ok" => output.value.subnet = "192.168.1"
              /\ ~supplied /\ input.detect = "ok" =>
                    output.value.subnet = octets[1] \o "." \o octets[2] \o "." \o octets[3]

\* a scanner was constructed without a subnet on a host whose UDP connect
\* fails although its address is 172.16.254.1
C17_Witness ==
    /\ input.f = "NetworkScanner"
    /\ input.subnet = <<>>
    /\ input.detect = "connect_error"
    /\ input.local_ip = <<"172", "16", "254", "1">>
    /\ output.state = "returned"
    /\ output.value.detected
    /\ output.value.subnet = "192.168.1"

\* C18: two sources reporting one host under different ports are not
\* merged: an ONVIF reply from host H is stored or merged under (H, 80) and
\* leaves every other entry of the map as it is, so an entry (H, 554) found
\* by the sweep stays rtsp/Camera without a manufacturer; and the list a
\* call returns holds every entry of the map, so it holds (H, 554) and
\* (H, 80) as two entries when both are in the map.
C18_SweepEntriesPlain ==
    \A g \in Generations : \A k \in DOMAIN objs[g] :
       objs[g][k].port = 554 =>
          /\ objs[g][k].manufacturer = ""
          /\ objs[g][k].protocol = "rtsp"
          /\ objs[g][k].device_type = CAMERA

C18_Step ==
    /\ \A t \in Probers :
          /\ t[2] = "onvif"
          /\ InsertStep(t) \/ (MergeStep(t) /\ KeyOf(dev[t]) \in DOMAIN objs[gen])
          =>
             /\ (dev[t].ip \o ":80") \in DOMAIN objs'[gen]
             /\ \A k \in DOMAIN objs[gen] :
                   k # dev[t].ip \o ":80" => objs'[gen][k] = objs[gen][k]
    /\ Returning =>
          \A k \in DOMAIN Discovered : \E r \in result'[call] : r = <<gen, k>>

Prober(kind) == <<call, kind>>

\* the calling thread is past the start of the probers, inside the call
PastStart == call > 0 /\ pc[Main] \notin {"idle", "clear", "start"}

\* the calling thread is waiting for the probers or building the list
PastSweep == pc[Main] \in {"join_onvif", "join_upnp", "return"}

\* C19: ordering of one scan call: until the map has been cleared nothing
\* else of the call has happened; the enabled probers are started before
\* the first TCP probe is issued and a disabled one is never started; the
\* sweep runs on the calling thread, and only if port scanning is enabled;
\* the wait for the probers begins only when every TCP probe has completed
\* and its device has been merged; the list is built last, by the return.
C19_State ==
    /\ call > 0 /\ pc[Main] \in {"clear", "start"} =>
          /\ pc[Prober("onvif")] = "off" /\ pc[Prober("upnp")] = "off"
          /\ pending = {} /\ completed = 0 /\ evidence[call] = {}
    /\ call > 0 /\ pc[Main] # "idle" => (gen = call <=> pc[Main] # "clear")
    /\ PastStart =>
          /\ pc[Prober("onvif")] # "off" <=> args.onvif
          /\ pc[Prober("upnp")] # "off" <=> args.upnp
          /\ ~args.port_scan => pending = {} /\ completed = 0
    /\ pc[Main] \in {"sweep", "add_lock", "add_insert", "add_merge"} => args.port_scan
    /\ PastSweep =>
          /\ pending = {} /\ dev[Main] = None /\ lock # Main
          /\ completed = IF args.port_scan THEN Cardinality(Targets) ELSE 0
          /\ \A e \in evidence[call] \cap Targets :
                \* (port 80 aside, which a prober may have found as well)
                e[2] # 80 => (e[1] \o ":" \o ToString(e[2])) \in DOMAIN Discovered
    /\ \A c \in Calls : outcome[c] # "returned" => result[c] = {}

C19_Step ==
    /\ gen' # gen => pc[Main] = "clear"
    /\ result' # result => Returning
    /\ pending' # pending \/ completed' # completed =>
          pc[Main] \in {"scan_ports", "sweep", "return"}

C19_Ordering == []C19_State /\ [][C19_Step]_vars

\* the sweep runs concurrently with both probers: probes are outstanding
\* while the ONVIF prober stores a device and the UPnP prober listens
C19_Witness ==
    /\ pc[Main] = "sweep"
    /\ pending # {}
    /\ completed > 0
    /\ pc[Prober("onvif")] = "add_insert"
    /\ pc[Prober("upnp")] = "recv"

\* future n waits in the executor's queue
InQueue(n) == \E i \in DOMAIN queue : queue[i] = n

\* the probe of future n was started and has returned
ProbeCompleted(n) ==
    call > 0 /\ n <= Len(probed[call]) /\ ~InQueue(n) /\ n \notin running

\* C20: the TCP sweep is bounded in concurrency: in every reachable state
\* the number of TCP probes in flight (started and not yet completed) is at
\* most max_workers, and every queued probe is eventually started and
\* completed.
C20_InFlightBound == Cardinality(running) <= max_workers

C20_BoundedPool ==
    /\ []C20_InFlightBound
    /\ \A n \in 1..ProbeCount : InQueue(n) ~> ProbeCompleted(n)

\* the pool is saturated: max_workers = 2 probes are in flight, one probe
\* has completed and another still waits in the queue
C20_Witness ==
    /\ max_workers = 2
    /\ Cardinality(running) = max_workers
    /\ queue # <<>>
    /\ done # {}

----------------------------------------------------------------------------
(* The probers on their own: _discover_onvif and _discover_upnp each run   *)
(* on a thread, no scan() in progress, and every recvfrom() that returns a *)
(* datagram returns the datagram of `input`; `output` records what the     *)
(* last recvfrom() did and in which thread.                                *)

\* the words a reply is made of: the nine keywords, vendor names as devices
\* spell them, undecodable bytes and words that mean nothing to the scanner
Words == {"camera", "nvr", "ipcam", "video", "rtsp", "hikvision", "dahua", "axis",
          "onvif", "Hikvision", "DAHUA", "Axis", "NVR", "NOISE", BadBytes}

ReplyPayloads == UNION {[1..n -> Words] : n \in 0..MaxWords}

ReplyInputs == [f : {"recvfrom"}, ip : ReplyIps, data : ReplyPayloads]

\* history: the threads a recvfrom() has returned a datagram to
Got == IF output.state = "none" THEN {} ELSE output.got

\* history: the parity of the number of datagrams returned so far
Tick == IF output.state = "none" THEN 0 ELSE output.tick

\* what a recvfrom() did: returned (data, addr) to thread t, or raised there
Received(t) ==
    [state |-> "returned", raised |-> FALSE, value |-> "datagram", to |-> t,
     got |-> Got \cup {t}, tick |-> 1 - Tick]
RecvRaised(t, e) ==
    [state |-> "returned", raised |-> TRUE, value |-> e, to |-> t, got |-> Got,
     tick |-> Tick]

\* an ONVIF prober that takes back the devices it reported when its socket fails
OnvifReplyDiscards(t) ==
    /\ t[2] = "onvif"
    /\ pc[t] = "recv"
    /\ input.f = "recvfrom"
    /\ \E e \in {"data", "timeout", "error"} :
          IF e = "data"
          THEN /\ replies < MaxReplies
               /\ replies' = replies + 1
               /\ dev' = [dev EXCEPT ![t] = OnvifDevice(input.ip, input.data)]
               /\ evidence' = Found(t, input.ip, 80)
               /\ output' = Received(t)
               /\ Goto(t, "add_lock")
               /\ UNCHANGED objs
          ELSE /\ Goto(t, IF e = "timeout" THEN "done" ELSE "failed")
               /\ output' = RecvRaised(t, e)
               /\ objs' = IF e = "timeout" THEN objs
                          ELSE [objs EXCEPT ![gen] =
                                  [k \in {j \in DOMAIN @ : @[j].protocol # "onvif"} |-> @[k]]]
               /\ UNCHANGED <<replies, dev, evidence>>
    /\ UNCHANGED <<lock, gen, call, args, pending, completed,
                   outcome, result, joinExpired>>
    /\ UNCHANGED <<max_workers, queue, running, done, probed, progress, input>>

\* lines 232-256: one recvfrom() of the ONVIF loop
OnvifReply(t) ==
    /\ t[2] = "onvif"
    /\ pc[t] = "recv"
    /\ input.f = "recvfrom"
    /\ \E e \in {"data", "timeout", "error"} :
          IF e = "data"
          THEN /\ replies < MaxReplies
               /\ replies' = replies + 1
               /\ dev' = [dev EXCEPT ![t] = OnvifDevice(input.ip, input.data)]
               /\ evidence' = Found(t, input.ip, 80)
               /\ output' = Received(t)
               /\ Goto(t, "add_lock")
          ELSE /\ Goto(t, IF e = "timeout" THEN "done" ELSE "failed")
               /\ output' = RecvRaised(t, e)
               /\ UNCHANGED <<replies, dev, evidence>>
    /\ UNCHANGED <<lock, gen, objs, call, args, pending, completed,
                   outcome, result, joinExpired>>
    /\ UNCHANGED <<max_workers, queue, running, done, probed, progress, input>>

\* lines 269-288: one recvfrom() of the UPnP loop
UpnpReply(t) ==
    /\ t[2] = "upnp"
    /\ pc[t] = "recv"
    /\ input.f = "recvfrom"
    /\ \E e \in {"data", "timeout", "error"} :
          IF e = "data"
          THEN /\ replies < MaxReplies
               /\ replies' = replies + 1
               /\ output' = Received(t)
               /\ IF UpnpAccepts(input.data)
                  THEN /\ dev' = [dev EXCEPT ![t] = UpnpDevice(input.ip)]
                       /\ evidence' = Found(t, input.ip, 80)
                       /\ Goto(t, "add_lock")
                  ELSE UNCHANGED <<dev, evidence, pc>>
          ELSE /\ Goto(t, IF e = "timeout" THEN "done" ELSE "failed")
               /\ output' = RecvRaised(t, e)
               /\ UNCHANGED <<replies, dev, evidence>>
    /\ UNCHANGED <<lock, gen, objs, call, args, pending, completed,
                   outcome, result, joinExpired>>
    /\ UNCHANGED <<max_workers, queue, running, done, probed, progress, input>>

\* a scanner just constructed, and threads about to run the two probers
InitReplies ==
    /\ pc = [t \in Threads |-> IF t = Main THEN "idle"
                               ELSE IF t[1] = 1 THEN "open" ELSE "off"]
    /\ dev = [t \in Threads |-> None]
    /\ lock = NoThread
    /\ gen = 0
    /\ objs = [g \in {0} \cup Calls |-> Empty]
    /\ call = 0
    /\ args = NoArgs
    /\ pending = {}
    /\ completed = 0
    /\ replies = 0
    /\ outcome = [c \in Calls |-> "none"]
    /\ result = [c \in Calls |-> {}]
    /\ joinExpired = {}
    /\ evidence = [c \in Calls |-> {}]
    /\ queue = <<>>
    /\ running = {}
    /\ done = {}
    /\ probed = [c \in Calls |-> <<>>]
    /\ progress = [c \in Calls |-> <<>>]
    /\ max_workers = DefaultWorkers
    /\ input \in ReplyInputs
    /\ output = NoOutput

NextReplies ==
    \E t \in Probers :
       \/ ProberOpen(t) \/ OnvifReply(t) \/ UpnpReply(t)
       \/ AddLock(t) \/ AddInsert(t) \/ AddMerge(t)

SpecReplies == InitReplies /\ [][NextReplies]_vars

\* thread t received a datagram in this step
ReceiveStep(t) == output' # output /\ ~output'.raised /\ output'.to = t

----------------------------------------------------------------------------
(* The probers on their own in a network that never falls silent: past the *)
(* MaxReplies datagrams that are counted, recvfrom() can go on returning   *)
(* the datagram of `input`.                                                *)

\* a prober that stops listening once MaxReplies datagrams have arrived
OnvifDeadline(t) ==
    /\ t[2] = "onvif"
    /\ pc[t] = "recv"
    /\ input.f = "recvfrom"
    /\ replies = MaxReplies
    /\ Goto(t, "done")
    /\ UNCHANGED <<dev, lock, gen, objs, call, args, pending, completed, replies,
                   outcome, result, joinExpired, evidence>>
    /\ UNCHANGED auxVars

\* one more recvfrom() of the ONVIF loop that returns a datagram
OnvifReplyFlood(t) ==
    /\ t[2] = "onvif"
    /\ pc[t] = "recv"
    /\ input.f = "recvfrom"
    /\ replies = MaxReplies
    /\ dev' = [dev EXCEPT ![t] = OnvifDevice(input.ip, input.data)]
    /\ evidence' = Found(t, input.ip, 80)
    /\ output' = Received(t)
    /\ Goto(t, "add_lock")
    /\ UNCHANGED <<lock, gen, objs, call, args, pending, completed, replies,
                   outcome, result, joinExpired>>
    /\ UNCHANGED <<max_workers, queue, running, done, probed, progress, input>>

\* one more recvfrom() of the UPnP loop that returns a datagram
UpnpReplyFlood(t) ==
    /\ t[2] = "upnp"
    /\ pc[t] = "recv"
    /\ input.f = "recvfrom"
    /\ replies = MaxReplies
    /\ output' = Received(t)
    /\ IF UpnpAccepts(input.data)
       THEN /\ dev' = [dev EXCEPT ![t] = UpnpDevice(input.ip)]
            /\ evidence' = Found(t, input.ip, 80)
            /\ Goto(t, "add_lock")
       ELSE UNCHANGED <<dev, evidence, pc>>
    /\ UNCHANGED <<lock, gen, objs, call, args, pending, completed, replies,
                   outcome, result, joinExpired>>
    /\ UNCHANGED <<max_workers, queue, running, done, probed, progress, input>>

\* the datagram is one of the three a scan is modelled with
InitListen == InitReplies /\ input.data \in Payloads

NextListen ==
    \E t \in Probers :
       \/ ProberOpen(t) \/ OnvifReply(t) \/ UpnpReply(t)
       \/ OnvifReplyFlood(t) \/ UpnpReplyFlood(t)
       \/ AddLock(t) \/ AddInsert(t) \/ AddMerge(t)

\* the steps of prober t that end in bounded time: the socket calls (a
\* recvfrom() returns within its 3 s timeout, with a datagram, a timeout or
\* an error) and the dictionary operations under the lock
ProberStep(t) ==
    \/ ProberOpen(t) \/ OnvifReply(t) \/ UpnpReply(t)
    \/ OnvifReplyFlood(t) \/ UpnpReplyFlood(t)
    \/ AddInsert(t) \/ AddMerge(t)

\* Threads are scheduled fairly: a prober keeps running and gets the lock
\* if the lock is free again and again.  Nothing is assumed about what a
\* recvfrom() returns.
SpecListen ==
    /\ InitListen /\ [][NextListen]_vars
    /\ \A t \in Probers : WF_vars(ProberStep(t)) /\ SF_vars(AddLock(t))

----------------------------------------------------------------------------
\* C21: every reply the ONVIF prober receives is submitted to _add_device
\* as a device with the reply's source address, port 80, protocol onvif and
\* type camera, whatever the payload; its manufacturer is that of the first
\* of hikvision, dahua, axis the lower-cased payload contains, and empty if
\* it contains none of them.
C21_Vendors == <<"hikvision", "dahua", "axis">>
C21_Names == <<"Hikvision", "Dahua", "Axis">>

C21_Named(data) == {i \in 1..3 : Contains(Lower(Decode(data)), C21_Vendors[i])}

C21_Manufacturer(data) ==
    IF C21_Named(data) = {} THEN ""
    ELSE C21_Names[CHOOSE i \in C21_Named(data) : \A j \in C21_Named(data) : i <= j]

C21_Step ==
    \A t \in Probers :
       t[2] = "onvif" /\ ReceiveStep(t) =>
          /\ pc'[t] = "add_lock"
          /\ dev'[t].ip = input.ip
          /\ dev'[t].port = 80
          /\ dev'[t].protocol = "onvif"
          /\ dev'[t].device_type = CAMERA
          /\ dev'[t].manufacturer = C21_Manufacturer(input.data)

C21_OnvifReply == [][C21_Step]_vars

\* a reply that names Axis before Hikvision is about to be submitted as a
\* Hikvision camera on port 80 of a host outside the swept subnet
C21_Witness ==
    \E t \in Probers :
       /\ t[2] = "onvif"
       /\ pc[t] = "add_lock"
       /\ input.data = <<"Axis", "Hikvision">>
       /\ input.ip = "10.0.0.7"
       /\ dev[t].manufacturer = "Hikvision"
       /\ dev[t].port = 80

----------------------------------------------------------------------------
\* C22: the UPnP prober submits a reply to _add_device if and only if the
\* lower-cased payload contains one of camera, nvr, ipcam, video, rtsp,
\* hikvision, dahua, axis, onvif; an accepted reply is submitted as a device
\* with the source address, port 80, protocol http and type camera; a
\* rejected reply leaves the map as it is and the prober at its recvfrom().
C22_Keywords ==
    <<"camera", "nvr", "ipcam", "video", "rtsp", "hikvision", "dahua", "axis", "onvif">>

C22_Relevant(data) ==
    \E i \in 1..Len(C22_Keywords) : Contains(Lower(Decode(data)), C22_Keywords[i])

C22_Step ==
    \A t \in Probers :
       t[2] = "upnp" /\ ReceiveStep(t) =>
          IF C22_Relevant(input.data)
          THEN /\ pc'[t] = "add_lock"
               /\ dev'[t].ip = input.ip
               /\ dev'[t].port = 80
               /\ dev'[t].protocol = "http"
               /\ dev'[t].device_type = CAMERA
          ELSE /\ pc'[t] = "recv"
               /\ dev'[t] = None
               /\ objs' = objs

C22_UpnpFilter == [][C22_Step]_vars

\* the UPnP prober has received a reply without a keyword twice, the map is
\* empty and the prober is at its recvfrom() again
C22_Witness ==
    \E t \in Probers :
       /\ t[2] = "upnp"
       /\ pc[t] = "recv"
       /\ replies = 2
       /\ ~output.raised /\ output.to = t
       /\ input.data = <<"NOISE", BadBytes>>
       /\ Discovered = Empty

----------------------------------------------------------------------------
\* the entries of the map prober t put there: only the ONVIF prober builds
\* devices with protocol onvif, only the UPnP prober builds http cameras
AddedBy(t) ==
    {k \in DOMAIN Discovered :
        IF t[2] = "onvif" THEN Discovered[k].protocol = "onvif"
        ELSE Discovered[k].protocol = "http" /\ Discovered[k].device_type = CAMERA}

\* C23 as stated: a multicast prober that fails, at whatever point, has
\* added no device to the result map.
C23_FailedContributesNothing ==
    \A t \in Probers : pc[t] = "failed" => AddedBy(t) = {}

\* C23 as amended: a socket or network error other than a receive timeout
\* ends the prober and goes no further (the step in which the prober fails
\* changes neither the map nor any other thread, and a failed prober stays
\* ended); a prober that fails before it has received a reply has added no
\* device; and no entry is ever taken out of the map again, so whatever the
\* prober added before the error stays.
C23_State ==
    \A t \in Probers : pc[t] = "failed" /\ t \notin Got => AddedBy(t) = {}

C23_Step ==
    /\ \A t \in Probers :
          /\ pc[t] # "failed" /\ pc'[t] = "failed" =>
                /\ objs' = objs
                /\ \A u \in Threads \ {t} : pc'[u] = pc[u]
          /\ output'.state # "none" /\ output'.raised /\ output'.value = "error"
                /\ output'.to = t /\ pc[t] = "recv" /\ pc'[t] # "recv" => pc'[t] = "failed"
          /\ pc[t] = "failed" => pc'[t] = "failed"
    /\ \A k \in DOMAIN Discovered : k \in DOMAIN objs'[gen']

C23_FailureKeepsEarlierDevices == []C23_State /\ [][C23_Step]_vars

\* the ONVIF prober has failed after a reply it received was inserted, and
\* the device is in the map
C23_Witness ==
    \E t \in Probers :
       /\ t[2] = "onvif"
       /\ pc[t] = "failed"
       /\ t \in Got
       /\ AddedBy(t) # {}

----------------------------------------------------------------------------
\* C24: a prober sends its one datagram and never sends again; every reply
\* recvfrom() returns is processed and the prober comes back to recvfrom();
\* it leaves the loop only when a recvfrom() times out (to "done") or fails
\* (to "failed"), never because of how long or how much it has listened; so
\* it ends if replies stop arriving, and it has not ended as long as replies
\* keep arriving.
C24_Step ==
    \A t \in Probers :
       \* the datagram is sent in the step that leaves "open", once
       /\ pc[t] # "open" => pc'[t] # "open"
       \* a reply is processed: submitted, or dropped by the UPnP filter
       /\ ReceiveStep(t) => pc[t] = "recv" /\ pc'[t] \in {"add_lock", "recv"}
       /\ pc[t] \in {"add_insert", "add_merge"} /\ pc'[t] # pc[t] => pc'[t] = "recv"
       \* the loop ends at a receive timeout or an error, and only there
       /\ pc[t] # "done" /\ pc'[t] = "done" =>
             pc[t] = "recv" /\ output' = RecvRaised(t, "timeout")
       /\ pc[t] # "failed" /\ pc'[t] = "failed" =>
             \/ pc[t] = "open"
             \/ pc[t] = "recv" /\ output' = RecvRaised(t, "error")
       /\ pc[t] = "recv" /\ output' # output /\ output'.raised /\ output'.to = t =>
             Ended(t)'

C24_Terminates ==
    \A t \in {u \in Probers : u[1] = 1} :
       ([]<><<ReceiveStep(t)>>_vars) \/ <>Ended(t)

C24_KeepsListening ==
    \A t \in {u \in Probers : u[1] = 1} :
       ([]<><<ReceiveStep(t)>>_vars) => []~Ended(t)

C24_ListenUntilQuiet == [][C24_Step]_vars /\ C24_Terminates /\ C24_KeepsListening

\* more than MaxReplies datagrams have arrived, the ONVIF prober submitted
\* the last of them and is back at its recvfrom()
C24_Witness ==
    \E t \in Probers :
       /\ t[2] = "onvif"
       /\ replies = MaxReplies
       /\ output = [Received(t) EXCEPT !.tick = 1]
       /\ output.got = {t}
       /\ pc[t] = "recv"
       /\ Discovered # Empty

----------------------------------------------------------------------------
\* the vendors a payload names
C25_Tokens == {<<"hikvision", "Hikvision">>, <<"dahua", "Dahua">>, <<"axis", "Axis">>}

C25_VendorsNamed(data) ==
    {v[2] : v \in {w \in C25_Tokens : Contains(Lower(Decode(data)), w[1])}}

\* C25 as stated: a device either prober submits to _add_device for a reply
\* whose payload contains a vendor token carries that vendor as its
\* manufacturer.
C25_BothExtractManufacturer ==
    \A t \in Probers :
       pc[t] = "add_lock" /\ C25_VendorsNamed(input.data) # {} =>
          dev[t].manufacturer \in C25_VendorsNamed(input.data)

\* C25 as amended: only the ONVIF prober extracts the manufacturer.  The
\* device it submits for a reply whose payload contains a vendor token
\* carries a vendor the payload names; the device the UPnP prober submits
\* has an empty manufacturer, whatever the payload contains.
C25_OnlyOnvifExtractsManufacturer ==
    \A t \in Probers :
       pc[t] = "add_lock" =>
          IF t[2] = "onvif"
          THEN C25_VendorsNamed(input.data) # {} =>
                  dev[t].manufacturer \in C25_VendorsNamed(input.data)
          ELSE dev[t].manufacturer = ""

\* the UPnP prober is about to submit the device of a reply that names
\* Dahua, accepted for that word, and the device has no manufacturer
C25_Witness ==
    \E t \in Probers :
       /\ t[2] = "upnp"
       /\ pc[t] = "add_lock"
       /\ input.data = <<"DAHUA">>
       /\ dev[t].manufacturer = ""
       /\ dev[t].protocol = "http"

----------------------------------------------------------------------------
(* scan_iter: a consumer iterates over scanner.scan_iter(...); `output`    *)
(* holds the devices the generator has yielded so far.                     *)

IterInput == [f |-> "scan_iter"]

\* scan_iter takes the three toggles and passes no callback
IterArgs == {a \in AllArgs : ~a.on_progress}

\* the devices yielded so far
Yielded == IF output.state = "none" THEN {} ELSE output.value

\* line 346: devices = self.scan(port_scan=port_scan, onvif=onvif, upnp=upnp),
\* entered when the consumer asks for the first item
IterScan ==
    /\ input = IterInput
    /\ call = 0
    /\ ScanEnter(1, IterArgs)

\* line 347: yield from devices, one device handed to the consumer
IterYield ==
    /\ input = IterInput
    /\ pc[Main] = "idle"
    /\ call > 0
    /\ outcome[call] = "returned"
    /\ \E r \in result[call] \ Yielded :
          output' = [state |-> "yielded", value |-> Yielded \cup {r}]
    /\ UNCHANGED <<pc, dev, lock, gen, objs, call, args, pending, completed, replies,
                   outcome, result, joinExpired, evidence>>
    /\ UNCHANGED <<max_workers, queue, running, done, probed, progress, input>>

\* line 347: the list is used up and the generator ends
IterStop ==
    /\ input = IterInput
    /\ pc[Main] = "idle"
    /\ call > 0
    /\ outcome[call] = "returned"
    /\ output.state # "exhausted"
    /\ result[call] \subseteq Yielded
    /\ output' = [state |-> "exhausted", value |-> Yielded]
    /\ UNCHANGED <<pc, dev, lock, gen, objs, call, args, pending, completed, replies,
                   outcome, result, joinExpired, evidence>>
    /\ UNCHANGED <<max_workers, queue, running, done, probed, progress, input>>

InitIter ==
    /\ ScannerInit
    /\ max_workers = DefaultWorkers
    /\ input = IterInput
    /\ output = NoOutput

NextIter ==
    \/ IterScan \/ IterYield \/ IterStop
    \/ Clear \/ StartProbers \/ ScanPorts
    \/ SweepStep \/ SweepDone \/ JoinOnvif \/ JoinUpnp \/ Return
    \/ \E t \in Probers : ProberOpen(t) \/ OnvifRecv(t) \/ UpnpRecv(t)
    \/ \E t \in Threads : AddLock(t) \/ AddInsert(t) \/ AddMerge(t)

SpecIter == InitIter /\ [][NextIter]_vars

----------------------------------------------------------------------------
\* C26: scan_iter yields devices as they are discovered: while the consumer
\* waits for the next item, a device that is in the result map and has not
\* been yielded can be yielded, whether or not the scan has finished; and
\* when the generator ends, it has yielded exactly the devices of the list
\* scan returned.
C26_YieldsAsDiscovered ==
    /\ call > 0 /\ output.state # "exhausted"
          /\ (\E k \in DOMAIN Discovered : <<gen, k>> \notin Yielded)
          => ENABLED IterYield
    /\ output.state = "exhausted" => Yielded = result[call]

----------------------------------------------------------------------------
(* A scanner constructed and then used for sweeps, on a machine whose      *)
(* network can change: `input` holds the constructor's subnet argument and *)
(* what _detect_subnet would find now, `output` what the constructor made  *)
(* of it.                                                                  *)

\* self.subnet
SelfSubnet == output.value.subnet

\* lines 195-199: targets, built from self.subnet
SubnetTargets ==
    [n \in 1..(MaxHost * NumPorts) |->
        <<SelfSubnet \o "." \o ToString(((n - 1) \div NumPorts) + 1),
          SweptPorts[((n - 1) % NumPorts) + 1]>>]

\* the machine moves to another network, or loses its route
NetworkMoves ==
    /\ input.f = "NetworkScanner"
    /\ output.state = "returned"
    /\ \E o \in DetectOutcomes, l \in LocalIps :
          /\ <<o, l>> # <<input.detect, input.local_ip>>
          /\ input' = [input EXCEPT !.detect = o, !.local_ip = l]
    /\ UNCHANGED <<pc, dev, lock, gen, objs, call, args, pending, completed, replies,
                   outcome, result, joinExpired, evidence>>
    /\ UNCHANGED <<max_workers, queue, running, done, probed, progress, output>>

\* scan(port_scan=True, onvif=False, upnp=False) from call to return: the
\* map is cleared, every target is probed, the targets in `open` accept the
\* connection and their devices are inserted, the list is returned
SubnetScan ==
    /\ input.f = "NetworkScanner"
    /\ output.state = "returned"
    /\ ~output.raised
    /\ pc[Main] = "idle"
    /\ call < MaxReuse
    /\ \E open \in SUBSET DOMAIN SubnetTargets :
          LET found == {CheckPort(SubnetTargets[n][1], SubnetTargets[n][2], "open").device :
                           n \in open}
              map == [k \in {KeyOf(d) : d \in found} |-> CHOOSE d \in found : KeyOf(d) = k]
          IN  /\ objs' = [objs EXCEPT ![gen + 1] = map]
              /\ result' = [result EXCEPT ![call + 1] = Snapshot(gen + 1, map)]
              /\ evidence' = [evidence EXCEPT ![call + 1] = {<<d.ip, d.port>> : d \in found}]
    /\ gen' = gen + 1
    /\ call' = call + 1
    /\ probed' = [probed EXCEPT ![call + 1] = SubnetTargets]
    /\ outcome' = [outcome EXCEPT ![call + 1] = "returned"]
    /\ UNCHANGED <<pc, dev, lock, args, pending, completed, replies, joinExpired>>
    /\ UNCHANGED <<max_workers, queue, running, done, progress, input, output>>

InitDetect ==
    /\ ScannerInit
    /\ max_workers = DefaultWorkers
    /\ input \in ScannerInputs
    /\ output = NoOutput

NextDetect == CallScanner \/ NetworkMoves \/ SubnetScan

SpecDetect == InitDetect /\ [][NextDetect]_vars

\* the scanner exists
Constructed == input.f = "NetworkScanner" /\ output.state = "returned"

\* _detect_subnet calls made so far: its one call site is line 133
Detections == IF Constructed /\ output.value.detected THEN 1 ELSE 0

\* the subnet _detect_subnet would return if it ran now
SubnetNow == DetectSubnet(input.detect, input.local_ip).device

----------------------------------------------------------------------------
\* C27 as stated: on a scanner constructed without a subnet, detection has
\* run once per scan() call made; on a scanner given a subnet, never.
C27_DetectsOncePerScan ==
    Constructed /\ call > 0 =>
       /\ input.subnet = <<>> => Detections = call
       /\ Truthy(input.subnet) => Detections = 0

\* C27 as amended: detection runs once per scanner, in the constructor, when
\* the caller supplied no subnet or an empty one, and never when a non-empty
\* subnet was supplied; no scan() call detects again or changes self.subnet,
\* and every sweep of every call probes the hosts of the subnet fixed at
\* construction.
C27_State ==
    Constructed =>
       /\ ~output.raised
       /\ output.value.detected = (input.subnet \in {<<>>, <<"">>})
       /\ input.subnet \notin {<<>>, <<"">>} => SelfSubnet = input.subnet[1]
       /\ \A c \in Calls : \A n \in DOMAIN probed[c] :
             \E i \in 1..MaxHost : probed[c][n][1] = SelfSubnet \o "." \o ToString(i)

C27_Step == Constructed => output' = output

C27_DetectsOncePerScanner == []C27_State /\ [][C27_Step]_vars

\* two scans on an auto-detecting scanner whose machine has moved to another
\* network since: one detection, and the second sweep probed the old subnet
C27_Witness ==
    /\ Constructed
    /\ input.subnet = <<>>
    /\ call = 2
    /\ Detections = 1
    /\ SubnetNow # SelfSubnet
    /\ probed[2] # <<>>
    /\ probed[2][1][1] = SelfSubnet \o ".1"

----------------------------------------------------------------------------
(* One scan(port_scan=True, onvif=True, upnp=True) on a network whose      *)
(* behaviour is fixed beforehand: `input` holds the swept targets that     *)
(* accept a connection and the replies each prober receives, in order;     *)
(* `output` counts the replies delivered so far.  Only the interleaving of *)
(* the threads is left open.                                               *)

RepliesUpTo(n) == UNION {[1..k -> ReplyIps \X Payloads] : k \in 0..n}

EvidenceInputs ==
    [f : {"scan"}, open : SUBSET Targets,
     onvif : RepliesUpTo(MaxOnvifReplies), upnp : RepliesUpTo(MaxUpnpReplies)]

EvidenceArgs == {[port_scan |-> TRUE, onvif |-> TRUE, upnp |-> TRUE, on_progress |-> FALSE]}

\* replies the prober of this kind has received
Delivered(kind) == IF output.state = "none" THEN 0 ELSE output[kind]

Deliver(kind) ==
    [state |-> "delivering",
     onvif |-> Delivered("onvif") + (IF kind = "onvif" THEN 1 ELSE 0),
     upnp |-> Delivered("upnp") + (IF kind = "upnp" THEN 1 ELSE 0)]

EvidenceScan ==
    /\ input.f = "scan"
    /\ call = 0
    /\ ScanEnter(1, EvidenceArgs)

\* _scan_ports lines 209-216: as_completed yields one more future, in any
\* order; its connect succeeded if the target is one of input.open and was
\* refused otherwise
EvidenceSweepStep ==
    /\ pc[Main] = "sweep"
    /\ input.f = "scan"
    /\ \E target \in pending :
          LET o == IF target \in input.open THEN "open" ELSE "refused"
              r == CheckPort(target[1], target[2], o)
          IN  /\ pending' = pending \ {target}
              /\ completed' = completed + 1
              /\ evidence' = IF o = "open"
                             THEN [evidence EXCEPT ![call] = @ \cup {target}]
                             ELSE evidence
              /\ IF r.device # None
                 THEN /\ dev' = [dev EXCEPT ![Main] = r.device]
                      /\ Goto(Main, "add_lock")
                 ELSE UNCHANGED <<dev, pc>>
    /\ UNCHANGED <<lock, gen, objs, call, args, replies, outcome, result, joinExpired>>
    /\ UNCHANGED auxVars

\* lines 232-256: one recvfrom() of the ONVIF loop; it returns the next
\* reply of input.onvif, and times out when there is none left
EvidenceOnvifRecv(t) ==
    /\ t[2] = "onvif"
    /\ pc[t] = "recv"
    /\ input.f = "scan"
    /\ IF Delivered("onvif") < Len(input.onvif)
       THEN LET e == input.onvif[Delivered("onvif") + 1]
            IN  /\ dev' = [dev EXCEPT ![t] = OnvifDevice(e[1], e[2])]
                /\ evidence' = Found(t, e[1], 80)
                /\ output' = Deliver("onvif")
                /\ Goto(t, "add_lock")
       ELSE /\ Goto(t, "done")
            /\ UNCHANGED <<dev, evidence, output>>
    /\ UNCHANGED <<lock, gen, objs, call, args, pending, completed, replies,
                   outcome, result, joinExpired>>
    /\ UNCHANGED <<max_workers, queue, running, done, probed, progress, input>>

\* lines 269-288: one recvfrom() of the UPnP loop, likewise
EvidenceUpnpRecv(t) ==
    /\ t[2] = "upnp"
    /\ pc[t] = "recv"
    /\ input.f = "scan"
    /\ IF Delivered("upnp") < Len(input.upnp)
       THEN LET e == input.upnp[Delivered("upnp") + 1]
            IN  /\ output' = Deliver("upnp")
                /\ IF UpnpAccepts(e[2])
                   THEN /\ dev' = [dev EXCEPT ![t] = UpnpDevice(e[1])]
                        /\ evidence' = Found(t, e[1], 80)
                        /\ Goto(t, "add_lock")
                   ELSE UNCHANGED <<dev, evidence, pc>>
       ELSE /\ Goto(t, "done")
            /\ UNCHANGED <<dev, evidence, output>>
    /\ UNCHANGED <<lock, gen, objs, call, args, pending, completed, replies,
                   outcome, result, joinExpired>>
    /\ UNCHANGED <<max_workers, queue, running, done, probed, progress, input>>

InitEvidence ==
    /\ ScannerInit
    /\ max_workers = DefaultWorkers
    /\ input \in EvidenceInputs
    /\ output = NoOutput

NextEvidence ==
    \/ EvidenceScan \/ Clear \/ StartProbers \/ ScanPorts
    \/ EvidenceSweepStep \/ SweepDone \/ JoinOnvif \/ JoinUpnp \/ Return
    \/ \E t \in Probers : ProberOpen(t) \/ EvidenceOnvifRecv(t) \/ EvidenceUpnpRecv(t)
    \/ \E t \in Threads : AddLock(t) \/ AddInsert(t) \/ AddMerge(t)

SpecEvidence == InitEvidence /\ [][NextEvidence]_vars

----------------------------------------------------------------------------
\* scan() has returned after both probers ended by themselves, each having
\* received and processed all of its replies
AllEvidenceIn ==
    /\ input.f = "scan"
    /\ call = 1
    /\ outcome[1] = "returned"
    /\ joinExpired = {}
    /\ \A t \in {<<1, "onvif">>, <<1, "upnp">>} : pc[t] = "done"

\* the replies of a sequence as a set
RepliesOf(seq) == {seq[n] : n \in DOMAIN seq}

OnvifIps == {e[1] : e \in RepliesOf(input.onvif)}
UpnpIps == {e[1] : e \in {x \in RepliesOf(input.upnp) : UpnpAccepts(x[2])}}

\* the (ip, port) the fixed evidence contains
EvidenceKeys == input.open \cup {<<ip, 80>> : ip \in OnvifIps \cup UpnpIps}

\* the first ONVIF reply from ip, and the first vendor the replies from ip name
FirstOnvifFrom(ip) == SelectSeq(input.onvif, LAMBDA e : e[1] = ip)[1]

FirstVendorFrom(ip) ==
    LET named == SelectSeq(input.onvif,
                           LAMBDA e : e[1] = ip /\ OnvifDevice(ip, e[2]).manufacturer # "")
    IN  IF named = <<>> THEN "" ELSE OnvifDevice(ip, named[1][2]).manufacturer

\* the entry for (ip, port) when the sources act one after the other: the
\* sweep, then the ONVIF prober, then the UPnP prober
OneAfterTheOther(ip, port) ==
    LET first == IF <<ip, port>> \in input.open THEN CheckPort(ip, port, "open").device
                 ELSE IF ip \in OnvifIps THEN OnvifDevice(ip, FirstOnvifFrom(ip)[2])
                 ELSE UpnpDevice(ip)
    IN  [first EXCEPT !.manufacturer = IF port = 80 THEN FirstVendorFrom(ip) ELSE ""]

\* the (protocol, device_type) the sources that found (ip, port) built it with
Offered(ip, port) ==
    {CAMERA_PORTS[port] : x \in {<<ip, port>>} \cap input.open}
    \cup {<<"onvif", CAMERA>> : x \in {ip} \cap {i \in OnvifIps : port = 80}}
    \cup {<<"http", CAMERA>> : x \in {ip} \cap {i \in UpnpIps : port = 80}}

\* C28 as stated: for fixed evidence, all of it in before scan() returns,
\* every interleaving of the three sources gives the same keys and, per
\* key, the same device_type, protocol, url and manufacturer: the ones the
\* sources give when they act one after the other.
C28_InterleavingIndependent ==
    AllEvidenceIn =>
       /\ {Identity(Deref(r)) : r \in result[1]} = EvidenceKeys
       /\ \A r \in result[1] :
             LET d == Deref(r)
                 e == OneAfterTheOther(d.ip, d.port)
             IN  /\ d.device_type = e.device_type
                 /\ d.protocol = e.protocol
                 /\ d.url = e.url
                 /\ d.manufacturer = e.manufacturer

\* C28 as amended: for fixed evidence, all of it in before scan() returns,
\* every interleaving gives the same keys and, per key, the same url and
\* manufacturer; protocol and device_type of a key are those of the source
\* whose device was inserted first, so they are the same under every
\* interleaving only for a key that one kind of source found.
C28_KeysUrlManufacturerIndependent ==
    AllEvidenceIn =>
       /\ {Identity(Deref(r)) : r \in result[1]} = EvidenceKeys
       /\ \A r \in result[1] :
             LET d == Deref(r)
                 e == OneAfterTheOther(d.ip, d.port)
             IN  /\ d.url = e.url
                 /\ d.manufacturer = e.manufacturer
                 /\ <<d.protocol, d.device_type>> \in Offered(d.ip, d.port)

\* a host with port 80 open that also answered ONVIF and UPnP, returned as
\* an onvif camera because the ONVIF prober's insert came first
C28_Witness ==
    /\ AllEvidenceIn
    /\ <<HostIp(1), 80>> \in input.open
    /\ HostIp(1) \in OnvifIps \cap UpnpIps
    /\ \E r \in result[1] :
          /\ Identity(Deref(r)) = <<HostIp(1), 80>>
          /\ Deref(r).protocol = "onvif"
          /\ Deref(r).manufacturer = "Hikvision"

----------------------------------------------------------------------------
\* the url the templates give for a protocol, an ip and a port
C29_Template(protocol, ip, port) ==
    IF protocol = "rtsp" THEN "rtsp://" \o ip \o ":" \o ToString(port) \o "/stream"
    ELSE IF protocol \in {"http", "onvif"} THEN "http://" \o ip \o ":" \o ToString(port) \o "/"
    ELSE ip \o ":" \o ToString(port)

\* C29: in every reachable state every entry of the result map (and of the
\* maps of earlier calls, whose objects returned lists still hold) has the
\* url the templates give for its own current protocol, ip and port.
C29_UrlAgreesWithProtocol ==
    \A g \in Generations : \A k \in DOMAIN objs[g] :
       LET d == objs[g][k]
       IN  d.url = C29_Template(d.protocol, d.ip, d.port)

\* the sweep found ports 80 and 554 of a host, an ONVIF reply from the host
\* was merged into the port-80 entry, and both urls follow their protocols
C29_Witness ==
    /\ KeyOf([ip |-> HostIp(1), port |-> 80]) \in DOMAIN Discovered
    /\ KeyOf([ip |-> HostIp(1), port |-> 554]) \in DOMAIN Discovered
    /\ LET d == Discovered[KeyOf([ip |-> HostIp(1), port |-> 80])]
           e == Discovered[KeyOf([ip |-> HostIp(1), port |-> 554])]
       IN  /\ d.protocol = "http"
           /\ d.manufacturer # ""
           /\ d.url = "http://192.168.1.1:80/"
           /\ e.url = "rtsp://192.168.1.1:554/stream"

----------------------------------------------------------------------------
\* the addresses subnet.1 .. subnet.254
C30_SubnetHosts == {HostIp(i) : i \in 1..254}

\* C30: in every reachable state every entry of the result map (and of the
\* maps of earlier calls) has a port of the static table and a protocol
\* among rtsp, http, https, onvif; an entry under a port other than 80 has
\* an address of the swept subnet, no manufacturer and the protocol and
\* device_type the table gives for its port; so an address outside the
\* subnet, the protocol onvif and a manufacturer occur under port 80 only.
C30_EntryShape ==
    \A g \in Generations : \A k \in DOMAIN objs[g] :
       LET d == objs[g][k]
       IN  /\ d.port \in DOMAIN CAMERA_PORTS
           /\ d.protocol \in {"rtsp", "http", "https", "onvif"}
           /\ d.port # 80 =>
                 /\ d.ip \in C30_SubnetHosts
                 /\ d.manufacturer = ""
                 /\ <<d.protocol, d.device_type>> = CAMERA_PORTS[d.port]
           /\ d.ip \notin C30_SubnetHosts \/ d.protocol = "onvif" \/ d.manufacturer # ""
                 => d.port = 80

\* the map holds an ONVIF camera with a manufacturer at port 80 of a host
\* outside the subnet, next to the sweep's entry for port 554 of a host of
\* the subnet
C30_Witness ==
    \E k1 \in DOMAIN Discovered, k2 \in DOMAIN Discovered :
       /\ Discovered[k1].ip = "10.0.0.7"
       /\ Discovered[k1].port = 80
       /\ Discovered[k1].protocol = "onvif"
       /\ Discovered[k1].manufacturer = "Dahua"
       /\ Discovered[k2].port = 554
       /\ Discovered[k2].ip = HostIp(1)
       /\ Discovered[k2].device_type = CAMERA

====
